---- MODULE Spec2Model ----
(***************************************************************************)
(* StellarStream: token-streaming contract (contracts/src/lib.rs).         *)
(* Every entry point is an operator from the state and the call's inputs   *)
(* to the call's outcome: the error it returns (or "Ok"), the storage and  *)
(* the balances it leaves, the payments it makes.  An action applies the   *)
(* outcome of a call that succeeds.  A call that returns Err or panics is  *)
(* rolled back by the host: it is a stuttering step.                       *)
(***************************************************************************)
EXTENDS Integers, Sequences, FiniteSets, TLC

(***************************************************************************)
(* Bounds of the model.                                                    *)
(***************************************************************************)
MaxTime == 5
MintAmount == 8
BackgroundAmount == 6

(***************************************************************************)
(* Machine widths, scaled down: u64 arithmetic is taken modulo U64Modulus  *)
(* and i128 checked arithmetic fails above I128Max.                        *)
(***************************************************************************)
U64Modulus == 65536
I128Max == 1073741823

\* Stream ids the model follows: 0 is a stream of two parties who stay idle,
\* whose deposit the contract holds beside the stream under study.
Ids == {0, 1}
Background == [sender |-> "erin", receiver |-> "frank", start_time |-> 1,
               end_time |-> 4]

Contract == "contract"
None == "none"
Users == {"alice", "bob", "carol"}
Addresses == Users \cup {"dave"}
Senders == {"alice"}
Receivers == {"bob"}
Transferees == {"bob", "carol"}
TopUps == {2}
\* The streams the sender may open.
Profiles ==
    { [total_amount |-> 5, start_time |-> 1, end_time |-> 4,
       curve_type |-> "Linear", is_soulbound |-> FALSE],
      [total_amount |-> 6, start_time |-> 1, end_time |-> 4,
       curve_type |-> "Exponential", is_soulbound |-> TRUE] }

VARIABLES
    now,            \* env.ledger().timestamp()
    stream_count,   \* instance storage STREAM_COUNT
    streams,        \* instance storage (STREAM_COUNT, id) -> Stream
    receipts,       \* instance storage (RECEIPT, id) -> StreamReceipt
    balance,        \* token contract balances, Contract included
    vault_shares,   \* instance storage DataKey::VaultShares(id)
    deposited,      \* ghost: tokens paid into the contract for each stream
    paid,           \* ghost: tokens the contract paid out for each stream
    acct,           \* a withdrawal schedule computed with math.rs alone
    proposal_count, \* instance storage PROPOSAL_COUNT
    proposals,      \* instance storage (PROPOSAL_COUNT, id) -> StreamProposal
    in_call         \* the external call an operation is inside of, if any

vars == <<now, stream_count, streams, receipts, balance, vault_shares,
          deposited, paid, acct, proposal_count, proposals, in_call>>

\* No proposal was made and no operation is under way.
Quiet ==
    /\ proposal_count = 0
    /\ proposals = <<>>
    /\ in_call = <<>>

StreamIds == 0 .. (stream_count - 1)

(***************************************************************************)
(* Results of fallible computations.                                       *)
(***************************************************************************)
Ok(v) == [ok |-> TRUE, val |-> v]
Fail == [ok |-> FALSE, val |-> 0]

\* Rust integer division truncates toward zero.
TruncDiv(a, b) == IF a >= 0 THEN a \div b ELSE -((-a) \div b)

\* u64 subtraction: panics under overflow checks, wraps without them.
U64Sub(a, b, checks) ==
    IF a >= b THEN Ok(a - b)
    ELSE IF checks THEN Fail
    ELSE Ok((a - b) % U64Modulus)

\* u64 addition: panics under overflow checks, wraps without them.
U64Add(a, b, checks) ==
    IF a + b < U64Modulus THEN Ok(a + b)
    ELSE IF checks THEN Fail
    ELSE Ok((a + b) % U64Modulus)

\* i128::checked_mul on non-negative operands.
checked_mul(a, b) ==
    IF a = 0 \/ b = 0 THEN Ok(0)
    ELSE IF a > I128Max \div b THEN Fail
    ELSE Ok(a * b)

\* i128 multiplication: panics under overflow checks; the wrapped product
\* of a release build without them is not a value the model follows.
I128Mul(a, b) == checked_mul(a, b)

(***************************************************************************)
(* math.rs                                                                 *)
(***************************************************************************)
calculate_unlocked_amount(total_amount, start_time, end_time, current_time) ==
    IF current_time < start_time THEN 0
    ELSE IF current_time >= end_time THEN total_amount
    ELSE (total_amount * (current_time - start_time)) \div (end_time - start_time)

calculate_exponential_unlocked(total_amount, start_time, end_time, current_time) ==
    IF current_time < start_time THEN Ok(0)
    ELSE IF current_time >= end_time THEN Ok(total_amount)
    ELSE LET elapsed == current_time - start_time
             duration == end_time - start_time
             elapsed_squared == checked_mul(elapsed, elapsed)
             duration_squared == checked_mul(duration, duration)
         IN IF ~elapsed_squared.ok \/ ~duration_squared.ok THEN Fail
            ELSE LET numerator == checked_mul(total_amount, elapsed_squared.val)
                 IN IF ~numerator.ok THEN Fail
                    ELSE Ok(numerator.val \div duration_squared.val)

\* calculate_unlocked that keeps following the line after the end.
math_calculate_unlocked_unclamped(total_amount, start, cliff, end, current_time) ==
    IF current_time < cliff THEN 0
    ELSE (total_amount * (current_time - start)) \div (end - start)

\* calculate_unlocked that releases from the start, whatever the cliff.
math_calculate_unlocked_no_cliff(total_amount, start, cliff, end, current_time) ==
    IF current_time < start THEN 0
    ELSE IF current_time >= end THEN total_amount
    ELSE (total_amount * (current_time - start)) \div (end - start)

\* math.rs calculate_unlocked (with a cliff); start <= cliff in every use.
math_calculate_unlocked(total_amount, start, cliff, end, current_time) ==
    IF current_time < cliff THEN 0
    ELSE IF current_time >= end THEN total_amount
    ELSE (total_amount * (current_time - start)) \div (end - start)

\* calculate_withdrawable with the remaining balance of an ended stream
\* taken to be the whole total: the last payment then leaves a surplus.
calculate_withdrawable_whole(total_amount, withdrawn_amount, start, cliff, end, current_time) ==
    IF current_time >= end THEN total_amount
    ELSE math_calculate_unlocked(total_amount, start, cliff, end, current_time)
             - withdrawn_amount

calculate_withdrawable(total_amount, withdrawn_amount, start, cliff, end, current_time) ==
    IF current_time >= end THEN total_amount - withdrawn_amount
    ELSE math_calculate_unlocked(total_amount, start, cliff, end, current_time)
             - withdrawn_amount

(***************************************************************************)
(* lib.rs calculate_unlocked.  `checks` says whether the build traps       *)
(* integer overflow.  The result is Fail when the call panics.             *)
(***************************************************************************)
RECURSIVE MilestoneCap(_, _, _, _)
MilestoneCap(milestones, total_amount, effective_time, cap) ==
    IF milestones = <<>> THEN cap
    ELSE LET m == Head(milestones)
             c == (total_amount * m.percentage) \div 100
             next == IF effective_time >= m.timestamp /\ c > cap THEN c ELSE cap
         IN MilestoneCap(Tail(milestones), total_amount, effective_time, next)

\* CurveBase with unwrap_or(0) where the code falls back on the linear
\* amount when the exponential one overflows.
CurveBase_fallback_zero(stream, effective_elapsed, duration, checks) ==
    LET linear == I128Mul(stream.total_amount, effective_elapsed)
    IN IF ~linear.ok THEN Fail
       ELSE IF stream.curve_type = "Linear" THEN Ok(linear.val \div duration)
       ELSE LET e == calculate_exponential_unlocked(
                         stream.total_amount, stream.start_time, stream.end_time,
                         stream.start_time + effective_elapsed)
            IN IF e.ok THEN e ELSE Ok(0)

CurveBase(stream, effective_elapsed, duration, checks) ==
    LET linear == I128Mul(stream.total_amount, effective_elapsed)
    IN IF stream.curve_type = "Linear"
       THEN IF linear.ok THEN Ok(linear.val \div duration) ELSE Fail
       ELSE \* the argument of unwrap_or is evaluated before the call
            LET adjusted_current == U64Add(stream.start_time, effective_elapsed, checks)
            IN IF ~linear.ok \/ ~adjusted_current.ok THEN Fail
               ELSE LET e == calculate_exponential_unlocked(
                                 stream.total_amount, stream.start_time,
                                 stream.end_time, adjusted_current.val)
                    IN IF e.ok THEN e ELSE Ok(linear.val \div duration)

\* The clock of a stream that keeps running through a pause.
effective_time_running(stream, current_time) == current_time

\* The time a stream's unlocked amount is computed at.
effective_time_of(stream, current_time) ==
    IF stream.is_paused THEN stream.paused_time ELSE current_time

\* calculate_unlocked that caps an ended stream by its milestones too, and
\* counts a milestone only after its time.
calculate_unlocked_capped(stream, current_time, checks) ==
    IF current_time <= stream.start_time THEN Ok(0)
    ELSE LET effective_time == effective_time_of(stream, current_time)
             adjusted_end == stream.end_time + stream.total_paused_duration
             ended == effective_time >= adjusted_end
             effective_elapsed == effective_time - stream.start_time
                                      - stream.total_paused_duration
             base == IF ended THEN Ok(stream.total_amount)
                     ELSE CurveBase(stream, effective_elapsed,
                                    stream.end_time - stream.start_time, checks)
             cap == MilestoneCap(stream.milestones, stream.total_amount,
                                 effective_time - 1, 0)
         IN IF ~ended /\ effective_elapsed <= 0 THEN Ok(0)
            ELSE IF ~base.ok THEN Fail
            ELSE IF stream.milestones = <<>> \/ base.val < cap THEN base
            ELSE Ok(cap)

calculate_unlocked(stream, current_time, checks) ==
    IF current_time <= stream.start_time THEN Ok(0)
    ELSE LET effective_time == effective_time_of(stream, current_time)
             adjusted_end == stream.end_time + stream.total_paused_duration
         IN IF effective_time >= adjusted_end THEN Ok(stream.total_amount)
            ELSE LET elapsed == U64Sub(effective_time, stream.start_time, checks)
                 IN IF ~elapsed.ok THEN Fail
                    ELSE LET effective_elapsed == elapsed.val - stream.total_paused_duration
                             duration == stream.end_time - stream.start_time
                         IN IF effective_elapsed <= 0 THEN Ok(0)
                            ELSE LET base == CurveBase(stream, effective_elapsed,
                                                       duration, checks)
                                 IN IF ~base.ok THEN Fail
                                    ELSE IF stream.milestones = <<>> THEN base
                                    ELSE LET cap == MilestoneCap(stream.milestones,
                                                        stream.total_amount,
                                                        effective_time, 0)
                                         IN IF base.val < cap THEN base ELSE Ok(cap)

\* The unlocked amount of a stream in a build that traps overflow.
unlocked(stream, current_time) == calculate_unlocked(stream, current_time, TRUE)

(***************************************************************************)
(* The token contract: a transfer panics when the payer's balance is short *)
(* or the amount is negative.                                              *)
(***************************************************************************)
Transfer(bal, from, to, amount) ==
    IF amount < 0 \/ bal[from] < amount THEN Fail
    ELSE Ok([a \in DOMAIN bal |->
                 IF a = from /\ a = to THEN bal[a]
                 ELSE IF a = from THEN bal[a] - amount
                 ELSE IF a = to THEN bal[a] + amount
                 ELSE bal[a]])

\* What a call leaves behind: the error (or "Ok"), the storage and the
\* balances after it, and the payments it made.
Outcome(err, s, r, b, v, amount, to, to_receiver, to_sender) ==
    [err |-> err, streams |-> s, receipts |-> r, balance |-> b,
     vault_shares |-> v, amount |-> amount, to |-> to,
     to_receiver |-> to_receiver, to_sender |-> to_sender]

\* An Err return or a panic: the host rolls the invocation back.
Abort(err) ==
    Outcome(err, streams, receipts, balance, vault_shares, 0, None, 0, 0)

\* lib.rs get_vault_shares: unwrap_or(0)
get_vault_shares(id) == IF id \in DOMAIN vault_shares THEN vault_shares[id] ELSE 0

Put(f, id, v) == [i \in (DOMAIN f) \cup {id} |-> IF i = id THEN v ELSE f[i]]

(***************************************************************************)
(* lib.rs create_stream / create_stream_with_milestones, without a vault.  *)
(***************************************************************************)
NewStream(sender, receiver, total_amount, start_time, end_time, milestones, curve_type, is_soulbound) ==
    [sender |-> sender, receiver |-> receiver, total_amount |-> total_amount,
     start_time |-> start_time, end_time |-> end_time,
     withdrawn_amount |-> 0, withdrawn |-> 0, cancelled |-> FALSE,
     receipt_owner |-> receiver, is_paused |-> FALSE, paused_time |-> 0,
     total_paused_duration |-> 0, milestones |-> milestones,
     curve_type |-> curve_type, vault_address |-> None,
     is_usd_pegged |-> FALSE, usd_amount |-> 0, oracle_max_staleness |-> 0,
     price_min |-> 0, price_max |-> 0, is_soulbound |-> is_soulbound,
     arbiter |-> None, is_frozen |-> FALSE]

mint_receipt(r, stream_id, owner) ==
    Put(r, stream_id, [stream_id |-> stream_id, owner |-> owner, minted_at |-> now])

\* create_stream_with_milestones without the check of the amount.
create_stream_any_amount(sender, receiver, total_amount, start_time, end_time, milestones, curve_type, is_soulbound) ==
    IF start_time >= end_time THEN Abort("InvalidTimeRange")
    ELSE LET paid_in == IF total_amount >= 0
                        THEN Transfer(balance, sender, Contract, total_amount)
                        ELSE Ok(balance)
             stream_id == stream_count
             stream == NewStream(sender, receiver, total_amount, start_time,
                                 end_time, milestones, curve_type, is_soulbound)
         IN IF ~paid_in.ok THEN Abort("Panic")
            ELSE Outcome("Ok", Put(streams, stream_id, stream),
                         mint_receipt(receipts, stream_id, receiver),
                         paid_in.val, vault_shares, total_amount, Contract, 0, 0)

\* lib.rs create_stream_with_milestones with vault_address = None, the token
\* allowlist disabled and no restricted receiver
create_stream_with_milestones(sender, receiver, total_amount, start_time, end_time, milestones, curve_type, is_soulbound) ==
    IF start_time >= end_time THEN Abort("InvalidTimeRange")
    ELSE IF total_amount <= 0 THEN Abort("InvalidAmount")
    ELSE LET paid_in == Transfer(balance, sender, Contract, total_amount)
             stream_id == stream_count
             stream == NewStream(sender, receiver, total_amount, start_time,
                                 end_time, milestones, curve_type, is_soulbound)
         IN IF ~paid_in.ok THEN Abort("Panic")
            ELSE Outcome("Ok", Put(streams, stream_id, stream),
                         mint_receipt(receipts, stream_id, receiver),
                         paid_in.val, vault_shares, total_amount, Contract, 0, 0)

(***************************************************************************)
(* lib.rs withdraw.  The USD-peg branch reads the oracle's answer          *)
(* (price, price_time); the vault branch reads what the vault pays back.   *)
(***************************************************************************)
PriceScale == 10000000

\* get_price without the staleness check.
get_price_any_age(price, price_time, max_staleness, checks) ==
    IF price <= 0 THEN [err |-> "Err", val |-> 0]
    ELSE [err |-> "Ok", val |-> price]

\* oracle.rs get_price
get_price(price, price_time, max_staleness, checks) ==
    LET age == U64Sub(now, price_time, checks)
    IN IF ~age.ok THEN [err |-> "Panic", val |-> 0]
       ELSE IF age.val > max_staleness THEN [err |-> "Err", val |-> 0]
       ELSE IF price <= 0 THEN [err |-> "Err", val |-> 0]
       ELSE [err |-> "Ok", val |-> price]

\* oracle.rs calculate_token_amount
calculate_token_amount(usd_amount, price) ==
    IF price <= 0 THEN Fail
    ELSE LET numerator == checked_mul(usd_amount, PriceScale)
         IN IF ~numerator.ok THEN Fail ELSE Ok(numerator.val \div price)

\* lib.rs calculate_unlocked_usd
calculate_unlocked_usd(stream, current_time, total_usd, checks) ==
    IF current_time <= stream.start_time THEN Ok(0)
    ELSE LET effective_time == IF stream.is_paused THEN stream.paused_time
                               ELSE current_time
             adjusted_end == stream.end_time + stream.total_paused_duration
         IN IF effective_time >= adjusted_end THEN Ok(total_usd)
            ELSE LET elapsed == U64Sub(effective_time, stream.start_time, checks)
                 IN IF ~elapsed.ok THEN Fail
                    ELSE LET effective_elapsed == elapsed.val - stream.total_paused_duration
                             duration == stream.end_time - stream.start_time
                             product == I128Mul(total_usd, effective_elapsed)
                         IN IF effective_elapsed <= 0 THEN Ok(0)
                            ELSE IF ~product.ok THEN Fail
                            ELSE Ok(product.val \div duration)

\* The amount withdraw computes: [err, val].
to_withdraw(stream, ext) ==
    IF stream.is_usd_pegged
    THEN LET price == get_price(ext.price, ext.price_time,
                                stream.oracle_max_staleness, ext.checks)
         IN IF price.err = "Panic" THEN [err |-> "Panic", val |-> 0]
            ELSE IF price.err = "Err" THEN [err |-> "OracleStalePrice", val |-> 0]
            ELSE IF price.val < stream.price_min \/ price.val > stream.price_max
                 THEN [err |-> "PriceOutOfBounds", val |-> 0]
            ELSE LET unlocked_usd == calculate_unlocked_usd(stream, now,
                                         stream.usd_amount, ext.checks)
                 IN IF ~unlocked_usd.ok THEN [err |-> "Panic", val |-> 0]
                    ELSE LET unlocked_tokens ==
                                 calculate_token_amount(unlocked_usd.val, price.val)
                         IN IF ~unlocked_tokens.ok
                            THEN [err |-> "InvalidAmount", val |-> 0]
                            ELSE [err |-> "Ok",
                                  val |-> unlocked_tokens.val - stream.withdrawn_amount]
    ELSE LET u == calculate_unlocked(stream, now, ext.checks)
         IN IF ~u.ok THEN [err |-> "Panic", val |-> 0]
            ELSE [err |-> "Ok", val |-> u.val - stream.withdrawn_amount]

\* The vault part without the check of what the vault sends back.
vault_release_lenient(stream, id, shares_to_withdraw, remaining_shares, bal, ext) ==
    IF shares_to_withdraw <= 0
    THEN [err |-> "InsufficientBalance", balance |-> bal, vault_shares |-> vault_shares]
    ELSE [err |-> "Ok",
          balance |-> [bal EXCEPT ![Contract] = @ + ext.vault_out],
          vault_shares |-> Put(vault_shares, id, remaining_shares)]

\* The vault part of withdraw and cancel: [err, balance, vault_shares].
vault_release(stream, id, shares_to_withdraw, remaining_shares, bal, ext) ==
    IF shares_to_withdraw <= 0 \/ ext.vault_out <= 0
    THEN [err |-> "InsufficientBalance", balance |-> bal, vault_shares |-> vault_shares]
    ELSE [err |-> "Ok",
          balance |-> [bal EXCEPT ![Contract] = @ + ext.vault_out],
          vault_shares |-> Put(vault_shares, id, remaining_shares)]

\* The guards of withdraw without the one on paused streams.
withdraw_guards_unpaused(stream, receipt, caller) ==
    IF receipt.owner # caller THEN "NotReceiptOwner"
    ELSE IF stream.cancelled THEN "AlreadyCancelled"
    ELSE IF stream.is_frozen THEN "StreamFrozen"
    ELSE "Ok"

\* The guards of withdraw on the receipt and the stream's status.
withdraw_guards(stream, receipt, caller) ==
    IF receipt.owner # caller THEN "NotReceiptOwner"
    ELSE IF stream.cancelled THEN "AlreadyCancelled"
    ELSE IF stream.is_paused THEN "StreamPaused"
    ELSE IF stream.is_frozen THEN "StreamFrozen"
    ELSE "Ok"

withdraw(id, caller, ext) ==
    IF id \notin StreamIds THEN Abort("StreamNotFound")
    ELSE LET receipt == receipts[id]
             stream == streams[id]
             refusal == withdraw_guards(stream, receipt, caller)
         IN IF refusal # "Ok" THEN Abort(refusal)
            ELSE LET tw == to_withdraw(stream, ext)
                 IN IF tw.err # "Ok" THEN Abort(tw.err)
                    ELSE IF tw.val <= 0 THEN Abort("InsufficientBalance")
                    ELSE LET updated == [stream EXCEPT
                                            !.withdrawn_amount = @ + tw.val]
                             shares == get_vault_shares(id)
                             released == (shares * tw.val) \div stream.total_amount
                             vault == IF stream.vault_address # None /\ shares > 0
                                      THEN vault_release(stream, id, released,
                                               shares - released, balance, ext)
                                      ELSE [err |-> "Ok", balance |-> balance,
                                            vault_shares |-> vault_shares]
                             payout == Transfer(vault.balance, Contract,
                                                stream.receiver, tw.val)
                         IN IF vault.err # "Ok" THEN Abort(vault.err)
                            ELSE IF ~payout.ok THEN Abort("Panic")
                            ELSE Outcome("Ok", Put(streams, id, updated), receipts,
                                         payout.val, vault.vault_shares,
                                         tw.val, stream.receiver, 0, 0)

(***************************************************************************)
(* lib.rs cancel                                                           *)
(***************************************************************************)
\* The guards of cancel without the one on cancelled streams.
cancel_guards_reopened(stream, receipt, caller) ==
    IF stream.sender # caller /\ receipt.owner # caller THEN "Unauthorized"
    ELSE "Ok"

\* The guards of cancel.
cancel_guards(stream, receipt, caller) ==
    IF stream.sender # caller /\ receipt.owner # caller THEN "Unauthorized"
    ELSE IF stream.cancelled THEN "AlreadyCancelled"
    ELSE "Ok"

cancel(id, caller, ext) ==
    IF id \notin StreamIds THEN Abort("StreamNotFound")
    ELSE LET stream == streams[id]
             receipt == receipts[id]
             refusal == cancel_guards(stream, receipt, caller)
         IN IF refusal # "Ok" THEN Abort(refusal)
            ELSE LET u == calculate_unlocked(stream, now, ext.checks)
                 IN IF ~u.ok THEN Abort("Panic")
                    ELSE LET to_receiver == u.val - stream.withdrawn
                             to_sender == stream.total_amount - u.val
                             updated == [stream EXCEPT !.cancelled = TRUE,
                                                       !.withdrawn = u.val]
                             shares == get_vault_shares(id)
                             vault == IF stream.vault_address # None /\ shares > 0
                                      THEN vault_release(stream, id, shares, 0,
                                                         balance, ext)
                                      ELSE [err |-> "Ok", balance |-> balance,
                                            vault_shares |-> vault_shares]
                             first == IF to_receiver > 0
                                      THEN Transfer(vault.balance, Contract,
                                                    receipt.owner, to_receiver)
                                      ELSE Ok(vault.balance)
                             second == IF ~first.ok THEN Fail
                                       ELSE IF to_sender > 0
                                       THEN Transfer(first.val, Contract,
                                                     stream.sender, to_sender)
                                       ELSE first
                         IN IF vault.err # "Ok" THEN Abort(vault.err)
                            ELSE IF ~second.ok THEN Abort("Panic")
                            ELSE Outcome("Ok", Put(streams, id, updated), receipts,
                                         second.val, vault.vault_shares,
                                         0, receipt.owner,
                                         IF to_receiver > 0 THEN to_receiver ELSE 0,
                                         IF to_sender > 0 THEN to_sender ELSE 0)

(***************************************************************************)
(* lib.rs top_up_stream                                                    *)
(***************************************************************************)
\* top_up_stream taking the flow rate of the total after the top-up.
top_up_stream_new_rate(id, sender, amount) ==
    IF amount <= 0 THEN Abort("InvalidAmount")
    ELSE IF id \notin StreamIds THEN Abort("StreamNotFound")
    ELSE LET stream == streams[id]
             paid_in == Transfer(balance, sender, Contract, amount)
             new_total == stream.total_amount + amount
             flow_rate == TruncDiv(new_total, stream.end_time - stream.start_time)
         IN IF stream.sender # sender THEN Abort("Unauthorized")
            ELSE IF stream.cancelled THEN Abort("AlreadyCancelled")
            ELSE IF now >= stream.end_time THEN Abort("StreamEnded")
            ELSE IF ~paid_in.ok \/ flow_rate = 0 THEN Abort("Panic")
            ELSE Outcome("Ok",
                         Put(streams, id,
                             [stream EXCEPT !.total_amount = new_total,
                                            !.end_time = @ + TruncDiv(amount, flow_rate)]),
                         receipts, paid_in.val, vault_shares, amount, Contract, 0, 0)

top_up_stream(id, sender, amount) ==
    IF amount <= 0 THEN Abort("InvalidAmount")
    ELSE IF id \notin StreamIds THEN Abort("StreamNotFound")
    ELSE LET stream == streams[id]
         IN IF stream.sender # sender THEN Abort("Unauthorized")
            ELSE IF stream.cancelled THEN Abort("AlreadyCancelled")
            ELSE IF now >= stream.end_time THEN Abort("StreamEnded")
            ELSE LET paid_in == Transfer(balance, sender, Contract, amount)
                     \* saturating_sub
                     total_duration == IF stream.end_time >= stream.start_time
                                       THEN stream.end_time - stream.start_time
                                       ELSE 0
                 IN IF ~paid_in.ok THEN Abort("Panic")
                    ELSE IF total_duration = 0 THEN Abort("Panic")
                    ELSE LET flow_rate == TruncDiv(stream.total_amount, total_duration)
                         IN IF flow_rate = 0 THEN Abort("Panic")
                            ELSE LET new_total == stream.total_amount + amount
                                     additional_duration == TruncDiv(amount, flow_rate)
                                     new_end_time == stream.end_time + additional_duration
                                     updated == [stream EXCEPT
                                                    !.total_amount = new_total,
                                                    !.end_time = new_end_time]
                                 IN Outcome("Ok", Put(streams, id, updated), receipts,
                                            paid_in.val, vault_shares,
                                            amount, Contract, 0, 0)

(***************************************************************************)
(* lib.rs pause_stream, unpause_stream                                     *)
(***************************************************************************)
\* pause_stream without the early return on a paused stream: every call
\* stamps paused_time anew.
pause_stream_restamped(id, caller) ==
    IF id \notin StreamIds THEN Abort("StreamNotFound")
    ELSE LET stream == streams[id]
         IN IF stream.sender # caller THEN Abort("Unauthorized")
            ELSE IF stream.cancelled THEN Abort("AlreadyCancelled")
            ELSE Outcome("Ok",
                         Put(streams, id, [stream EXCEPT !.is_paused = TRUE,
                                                         !.paused_time = now]),
                         receipts, balance, vault_shares, 0, None, 0, 0)

pause_stream(id, caller) ==
    IF id \notin StreamIds THEN Abort("StreamNotFound")
    ELSE LET stream == streams[id]
         IN IF stream.sender # caller THEN Abort("Unauthorized")
            ELSE IF stream.cancelled THEN Abort("AlreadyCancelled")
            ELSE IF stream.is_paused THEN Abort("Ok")
            ELSE Outcome("Ok",
                         Put(streams, id, [stream EXCEPT !.is_paused = TRUE,
                                                         !.paused_time = now]),
                         receipts, balance, vault_shares, 0, None, 0, 0)

\* A resumption that does not count the pause.
resumed_uncounted(stream, pause_duration) ==
    [stream EXCEPT !.is_paused = FALSE, !.paused_time = 0]

\* A resumption that writes the record back without its soulbound flag.
resumed_unbound(stream, pause_duration) ==
    [stream EXCEPT !.total_paused_duration = @ + pause_duration,
                   !.is_paused = FALSE,
                   !.paused_time = 0,
                   !.is_soulbound = FALSE]

\* The record unpause_stream writes.
resumed(stream, pause_duration) ==
    [stream EXCEPT !.total_paused_duration = @ + pause_duration,
                   !.is_paused = FALSE,
                   !.paused_time = 0]

unpause_stream(id, caller, ext) ==
    IF id \notin StreamIds THEN Abort("StreamNotFound")
    ELSE LET stream == streams[id]
         IN IF stream.sender # caller THEN Abort("Unauthorized")
            ELSE IF stream.cancelled THEN Abort("AlreadyCancelled")
            ELSE IF ~stream.is_paused THEN Abort("Ok")
            ELSE LET pause_duration == U64Sub(now, stream.paused_time, ext.checks)
                 IN IF ~pause_duration.ok THEN Abort("Panic")
                    ELSE Outcome("Ok",
                             Put(streams, id, resumed(stream, pause_duration.val)),
                             receipts, balance, vault_shares, 0, None, 0, 0)

(***************************************************************************)
(* lib.rs transfer_receipt, transfer_receiver                              *)
(***************************************************************************)
\* transfer_receipt that rewrites the receipt and not the stream.
transfer_receipt_receipt_only(id, from, to) ==
    IF id \notin DOMAIN receipts THEN Abort("StreamNotFound")
    ELSE LET receipt == receipts[id]
         IN IF receipt.owner # from THEN Abort("NotReceiptOwner")
            ELSE IF id \notin StreamIds THEN Abort("StreamNotFound")
            ELSE Outcome("Ok", streams,
                         Put(receipts, id, [receipt EXCEPT !.owner = to]),
                         balance, vault_shares, 0, to, 0, 0)

transfer_receipt(id, from, to) ==
    IF id \notin DOMAIN receipts THEN Abort("StreamNotFound")
    ELSE LET receipt == receipts[id]
         IN IF receipt.owner # from THEN Abort("NotReceiptOwner")
            ELSE IF id \notin StreamIds THEN Abort("StreamNotFound")
            ELSE Outcome("Ok",
                         Put(streams, id, [streams[id] EXCEPT !.receipt_owner = to]),
                         Put(receipts, id, [receipt EXCEPT !.owner = to]),
                         balance, vault_shares, 0, to, 0, 0)

\* transfer_receiver with the soulbound check after the sender and
\* cancelled checks.
transfer_receiver_sender_first(id, caller, new_receiver) ==
    IF id \notin StreamIds THEN Abort("StreamNotFound")
    ELSE LET stream == streams[id]
         IN IF stream.sender # caller THEN Abort("Unauthorized")
            ELSE IF stream.cancelled THEN Abort("AlreadyCancelled")
            ELSE IF stream.is_soulbound THEN Abort("StreamIsSoulbound")
            ELSE Outcome("Ok",
                         Put(streams, id, [stream EXCEPT !.receiver = new_receiver]),
                         receipts, balance, vault_shares, 0, new_receiver, 0, 0)

transfer_receiver(id, caller, new_receiver) ==
    IF id \notin StreamIds THEN Abort("StreamNotFound")
    ELSE LET stream == streams[id]
         IN IF stream.is_soulbound THEN Abort("StreamIsSoulbound")
            ELSE IF stream.sender # caller THEN Abort("Unauthorized")
            ELSE IF stream.cancelled THEN Abort("AlreadyCancelled")
            ELSE Outcome("Ok",
                         Put(streams, id, [stream EXCEPT !.receiver = new_receiver]),
                         receipts, balance, vault_shares, 0, new_receiver, 0, 0)

(***************************************************************************)
(* Dispute and clawback entry points.  lib.rs holds no code for them: they *)
(* follow the specification's section 4.2 and the calls of dispute_test.rs *)
(* and clawback_test.rs.                                                   *)
(***************************************************************************)
Officers == {"dave"}
Arbiters == {"dave"}
BasisPoints == 10000
BpsChoices == {6000}

set_arbiter(id, caller, arbiter) ==
    IF id \notin StreamIds THEN Abort("StreamNotFound")
    ELSE LET stream == streams[id]
         IN IF stream.sender # caller THEN Abort("Unauthorized")
            ELSE IF stream.cancelled THEN Abort("AlreadyCancelled")
            ELSE Outcome("Ok", Put(streams, id, [stream EXCEPT !.arbiter = arbiter]),
                         receipts, balance, vault_shares, 0, None, 0, 0)

\* freeze_stream open to the stream's sender as well.
freeze_stream_by_sender(id, caller) ==
    IF id \notin StreamIds THEN Abort("StreamNotFound")
    ELSE LET stream == streams[id]
         IN IF stream.arbiter # caller /\ stream.sender # caller
            THEN Abort("Unauthorized")
            ELSE IF stream.cancelled THEN Abort("AlreadyCancelled")
            ELSE Outcome("Ok", Put(streams, id, [stream EXCEPT !.is_frozen = TRUE]),
                         receipts, balance, vault_shares, 0, None, 0, 0)

freeze_stream(id, caller) ==
    IF id \notin StreamIds THEN Abort("StreamNotFound")
    ELSE LET stream == streams[id]
         IN IF stream.arbiter # caller THEN Abort("Unauthorized")
            ELSE IF stream.cancelled THEN Abort("AlreadyCancelled")
            ELSE Outcome("Ok", Put(streams, id, [stream EXCEPT !.is_frozen = TRUE]),
                         receipts, balance, vault_shares, 0, None, 0, 0)

\* resolve_dispute with each share rounded down on its own.
resolve_dispute_two_floors(id, caller, receiver_bps) ==
    IF id \notin StreamIds THEN Abort("StreamNotFound")
    ELSE LET stream == streams[id]
         IN IF stream.arbiter # caller THEN Abort("Unauthorized")
            ELSE IF stream.cancelled THEN Abort("AlreadyCancelled")
            ELSE LET remaining == stream.total_amount - stream.withdrawn_amount
                     to_receiver == (remaining * receiver_bps) \div BasisPoints
                     to_sender == (remaining * (BasisPoints - receiver_bps))
                                      \div BasisPoints
                     first == Transfer(balance, Contract, stream.receiver, to_receiver)
                     second == IF first.ok
                               THEN Transfer(first.val, Contract, stream.sender, to_sender)
                               ELSE Fail
                 IN IF ~second.ok THEN Abort("Panic")
                    ELSE Outcome("Ok",
                                 Put(streams, id, [stream EXCEPT !.cancelled = TRUE]),
                                 receipts, second.val, vault_shares,
                                 0, stream.receiver, to_receiver, to_sender)

resolve_dispute(id, caller, receiver_bps) ==
    IF id \notin StreamIds THEN Abort("StreamNotFound")
    ELSE LET stream == streams[id]
         IN IF stream.arbiter # caller THEN Abort("Unauthorized")
            ELSE IF stream.cancelled THEN Abort("AlreadyCancelled")
            ELSE LET remaining == stream.total_amount - stream.withdrawn_amount
                     to_receiver == (remaining * receiver_bps) \div BasisPoints
                     to_sender == remaining - to_receiver
                     first == Transfer(balance, Contract, stream.receiver, to_receiver)
                     second == IF first.ok
                               THEN Transfer(first.val, Contract, stream.sender, to_sender)
                               ELSE Fail
                 IN IF ~second.ok THEN Abort("Panic")
                    ELSE Outcome("Ok",
                                 Put(streams, id, [stream EXCEPT !.cancelled = TRUE]),
                                 receipts, second.val, vault_shares,
                                 0, stream.receiver, to_receiver, to_sender)

\* governance_clawback returning the remainder to the sender.
governance_clawback_to_sender(id, officer, issuer) ==
    IF officer \notin Officers THEN Abort("Unauthorized")
    ELSE IF id \notin StreamIds THEN Abort("StreamNotFound")
    ELSE LET stream == streams[id]
         IN IF stream.cancelled THEN Abort("AlreadyCancelled")
            ELSE LET remaining == stream.total_amount - stream.withdrawn_amount
                     clawed == Transfer(balance, Contract, stream.sender, remaining)
                 IN IF ~clawed.ok THEN Abort("Panic")
                    ELSE Outcome("Ok",
                                 Put(streams, id, [stream EXCEPT !.cancelled = TRUE]),
                                 receipts, clawed.val, vault_shares,
                                 remaining, issuer, 0, 0)

governance_clawback(id, officer, issuer) ==
    IF officer \notin Officers THEN Abort("Unauthorized")
    ELSE IF id \notin StreamIds THEN Abort("StreamNotFound")
    ELSE LET stream == streams[id]
         IN IF stream.cancelled THEN Abort("AlreadyCancelled")
            ELSE LET remaining == stream.total_amount - stream.withdrawn_amount
                     clawed == Transfer(balance, Contract, issuer, remaining)
                 IN IF ~clawed.ok THEN Abort("Panic")
                    ELSE Outcome("Ok",
                                 Put(streams, id, [stream EXCEPT !.cancelled = TRUE]),
                                 receipts, clawed.val, vault_shares,
                                 remaining, issuer, 0, 0)

(***************************************************************************)
(* The state machine.                                                      *)
(***************************************************************************)
Commit(o) ==
    /\ o.err = "Ok"
    /\ streams' = o.streams
    /\ receipts' = o.receipts
    /\ balance' = o.balance
    /\ vault_shares' = o.vault_shares
    /\ UNCHANGED <<now, acct, proposal_count, proposals, in_call>>

Add(f, id, n) == [f EXCEPT ![id] = @ + n]

\* The answers of the collaborators and the build's overflow behaviour.
Exts == [checks : BOOLEAN, price : {0}, price_time : {0}, vault_out : {0}]

\* A schedule of withdrawals: the parameters, what was withdrawn so far,
\* each payment and the time it was made at.
Account(total_amount, start, cliff, end) ==
    [total_amount |-> total_amount, start |-> start, cliff |-> cliff, end |-> end,
     withdrawn |-> 0, payments |-> <<>>, times |-> <<>>]
NoAccount == Account(0, 0, 0, 0)

\* The contract after the background stream was created at time 0.
Init ==
    /\ now = 0
    /\ Quiet
    /\ stream_count = 1
    /\ streams = Put(<<>>, 0, NewStream(Background.sender, Background.receiver,
                          BackgroundAmount, Background.start_time,
                          Background.end_time, <<>>, "Linear", FALSE))
    /\ receipts = Put(<<>>, 0, [stream_id |-> 0, owner |-> Background.receiver,
                                minted_at |-> 0])
    /\ vault_shares = <<>>
    /\ balance = [a \in Addresses \cup {Contract} |->
                      IF a \in Senders THEN MintAmount
                      ELSE IF a = Contract THEN BackgroundAmount ELSE 0]
    /\ deposited = Put(<<>>, 0, BackgroundAmount)
    /\ paid = Put(<<>>, 0, 0)
    /\ acct = NoAccount

Tick ==
    /\ now < MaxTime
    /\ now' = now + 1
    /\ UNCHANGED <<stream_count, streams, receipts, balance, vault_shares,
                   deposited, paid, acct, proposal_count, proposals, in_call>>

CreateStream ==
    \E sender \in Senders, receiver \in Receivers, p \in Profiles :
        /\ stream_count \in Ids
        /\ now = 0
        /\ Commit(create_stream_with_milestones(sender, receiver, p.total_amount,
                      p.start_time, p.end_time, <<>>, p.curve_type, p.is_soulbound))
        /\ stream_count' = stream_count + 1
        /\ deposited' = Put(deposited, stream_count, p.total_amount)
        /\ paid' = Put(paid, stream_count, 0)

TopUp ==
    \E id \in Ids, caller \in Addresses, amount \in TopUps :
        /\ Commit(top_up_stream(id, caller, amount))
        /\ deposited' = Add(deposited, id, amount)
        /\ UNCHANGED <<stream_count, paid>>

Pause ==
    \E id \in Ids, caller \in Addresses :
        /\ Commit(pause_stream(id, caller))
        /\ UNCHANGED <<stream_count, deposited, paid>>

Unpause ==
    \E id \in Ids, caller \in Addresses, ext \in Exts :
        /\ Commit(unpause_stream(id, caller, ext))
        /\ UNCHANGED <<stream_count, deposited, paid>>

TransferReceipt ==
    \E id \in Ids, from \in Addresses, to \in Transferees :
        /\ Commit(transfer_receipt(id, from, to))
        /\ UNCHANGED <<stream_count, deposited, paid>>

TransferReceiver ==
    \E id \in Ids, caller \in Addresses, new_receiver \in Transferees :
        /\ Commit(transfer_receiver(id, caller, new_receiver))
        /\ UNCHANGED <<stream_count, deposited, paid>>

Withdraw ==
    \E id \in Ids, caller \in Addresses, ext \in Exts :
        LET o == withdraw(id, caller, ext)
        IN /\ Commit(o)
           /\ paid' = Add(paid, id, o.amount)
           /\ UNCHANGED <<stream_count, deposited>>

Cancel ==
    \E id \in Ids, caller \in Addresses, ext \in Exts :
        LET o == cancel(id, caller, ext)
        IN /\ Commit(o)
           /\ paid' = Add(paid, id, o.to_receiver + o.to_sender)
           /\ UNCHANGED <<stream_count, deposited>>

SetArbiter ==
    \E id \in Ids, caller \in Addresses, arbiter \in Arbiters :
        /\ Commit(set_arbiter(id, caller, arbiter))
        /\ UNCHANGED <<stream_count, deposited, paid>>

Freeze ==
    \E id \in Ids, caller \in Addresses :
        /\ Commit(freeze_stream(id, caller))
        /\ UNCHANGED <<stream_count, deposited, paid>>

ResolveDispute ==
    \E id \in Ids, caller \in Addresses, receiver_bps \in BpsChoices :
        LET o == resolve_dispute(id, caller, receiver_bps)
        IN /\ Commit(o)
           /\ paid' = Add(paid, id, o.to_receiver + o.to_sender)
           /\ UNCHANGED <<stream_count, deposited>>

Clawback ==
    \E id \in Ids, officer \in Addresses, issuer \in Officers :
        LET o == governance_clawback(id, officer, issuer)
        IN /\ Commit(o)
           /\ paid' = Add(paid, id, o.amount)
           /\ UNCHANGED <<stream_count, deposited>>

Next ==
    \/ Tick
    \/ CreateStream
    \/ TopUp
    \/ Pause
    \/ Unpause
    \/ TransferReceipt
    \/ TransferReceiver
    \/ Withdraw
    \/ Cancel
    \/ SetArbiter
    \/ Freeze
    \/ ResolveDispute
    \/ Clawback

Spec == Init /\ [][Next]_vars

(***************************************************************************)
(* Properties of settlement.                                               *)
(***************************************************************************)

\* C1 (solvency): for every stream (none here is USD-pegged or vault-backed)
\* the tokens paid out for it, by withdraw and by both legs of cancel, never
\* exceed the tokens deposited for it, at creation and by top-ups.
Solvency ==
    \A id \in StreamIds : paid[id] <= deposited[id]

\* C2 (cancellation conservation): a cancel that succeeds on a stream with W
\* already withdrawn pays the receipt owner unlocked(now) - W and the
\* sender total_amount - unlocked(now), so that both payments and W add up
\* to total_amount.
CancelConservation ==
    \A id \in StreamIds, caller \in Addresses, ext \in Exts :
        LET stream == streams[id]
            W == stream.withdrawn_amount
            u == calculate_unlocked(stream, now, ext.checks)
            o == cancel(id, caller, ext)
        IN o.err = "Ok" =>
               /\ o.to_receiver = u.val - W
               /\ o.to_sender = stream.total_amount - u.val
               /\ o.to_receiver + o.to_sender + W = stream.total_amount

\* C3 (stream invariant): every stream that is not cancelled (none here is
\* USD-pegged) has 0 <= withdrawn_amount <= unlocked(now) <= total_amount,
\* whatever operations ran before, top-ups, pauses and resumptions included.
StreamInvariant ==
    \A id \in StreamIds, checks \in BOOLEAN :
        LET stream == streams[id]
            u == calculate_unlocked(stream, now, checks)
        IN ~stream.cancelled =>
               /\ u.ok
               /\ 0 <= stream.withdrawn_amount
               /\ stream.withdrawn_amount <= u.val
               /\ u.val <= stream.total_amount

(***************************************************************************)
(* Withdrawal schedules: the parameters are fixed at the start, time        *)
(* advances, and each withdrawal pays calculate_withdrawable of math.rs.   *)
(* The contract holds one linear stream of the same amount and times, from *)
(* which its receiver withdraws.                                           *)
(***************************************************************************)
Schedules ==
    { Account(1000, 0, 0, 3), Account(10, 0, 0, 4), Account(7, 1, 2, 4),
      Account(1, 0, 0, 5) }

InitDust ==
    /\ now = 0
    /\ Quiet
    /\ acct \in Schedules
    /\ stream_count = 1
    /\ streams = Put(<<>>, 0, NewStream("alice", "bob", acct.total_amount,
                          acct.start, acct.end, <<>>, "Linear", FALSE))
    /\ receipts = Put(<<>>, 0, [stream_id |-> 0, owner |-> "bob", minted_at |-> 0])
    /\ vault_shares = <<>>
    /\ balance = [a \in Addresses \cup {Contract} |->
                      IF a = Contract THEN acct.total_amount ELSE 0]
    /\ deposited = Put(<<>>, 0, acct.total_amount)
    /\ paid = Put(<<>>, 0, 0)

\* The time of the schedule's last withdrawal, -1 before the first.
LastTime(a) == IF a.times = <<>> THEN -1 ELSE a.times[Len(a.times)]

\* One withdrawal of the schedule, later than the one before it.
ScheduledWithdraw ==
    LET amount == calculate_withdrawable(acct.total_amount, acct.withdrawn,
                                         acct.start, acct.cliff, acct.end, now)
    IN /\ LastTime(acct) < now
       /\ acct' = [acct EXCEPT !.withdrawn = @ + amount,
                               !.payments = Append(@, amount),
                               !.times = Append(@, now)]
       /\ UNCHANGED <<now, stream_count, streams, receipts, balance,
                      vault_shares, deposited, paid,
                   proposal_count, proposals, in_call>>

NextDust ==
    \/ Tick
    \/ ScheduledWithdraw
    \/ Withdraw

SpecDust == InitDust /\ [][NextDust]_vars

RECURSIVE Sum(_)
Sum(seq) == IF seq = <<>> THEN 0 ELSE Head(seq) + Sum(Tail(seq))

\* C4 (zero-dust reconciliation): with fixed parameters, after every
\* withdrawal of a schedule at increasing times the cumulative amount
\* withdrawn equals unlocked(now); when the last withdrawal is at now >= end
\* the payments sum to exactly total_amount; total 1000 over [0,3] withdrawn
\* at 1, 2, 3 pays 333, 333, 334.  The contract's withdraw does the same
\* with the stream it holds.
ZeroDust ==
    /\ LastTime(acct) = now =>
           /\ Sum(acct.payments) = acct.withdrawn
           /\ acct.withdrawn = math_calculate_unlocked(acct.total_amount,
                                    acct.start, acct.cliff, acct.end, now)
           /\ now >= acct.end => Sum(acct.payments) = acct.total_amount
           /\ (acct.total_amount = 1000 /\ acct.start = 0 /\ acct.end = 3
               /\ acct.times = <<1, 2, 3>>) => acct.payments = <<333, 333, 334>>
    /\ \A id \in StreamIds, ext \in Exts :
           LET o == withdraw(id, receipts[id].owner, ext)
               after == o.streams[id]
           IN /\ paid[id] = streams[id].withdrawn_amount
              /\ o.err = "Ok" =>
                     /\ after.withdrawn_amount = paid[id] + o.amount
                     /\ Ok(after.withdrawn_amount) = unlocked(after, now)
                     /\ now >= after.end_time =>
                            after.withdrawn_amount = after.total_amount

\* The example of C4 has run: three withdrawals, the last one at the end.
ZeroDustWitness ==
    /\ acct.total_amount = 1000
    /\ acct.times = <<1, 2, 3>>
    /\ acct.payments = <<333, 333, 334>>
    /\ now = acct.end
    /\ paid[0] = 1000

(***************************************************************************)
(* Properties of withdraw.                                                 *)
(***************************************************************************)

\* C5 (withdraw pays the receipt owner): a withdraw that succeeds raises
\* withdrawn_amount by the withdrawable amount and moves exactly that amount
\* from the contract to the current owner of the receipt, also after
\* transfer_receipt gave the receipt to a new owner.
WithdrawPaysReceiptOwner ==
    \A id \in StreamIds, caller \in Addresses, ext \in Exts :
        LET stream == streams[id]
            owner == receipts[id].owner
            withdrawable == unlocked(stream, now).val - stream.withdrawn_amount
            o == withdraw(id, caller, ext)
        IN o.err = "Ok" =>
               /\ o.streams[id].withdrawn_amount =
                      stream.withdrawn_amount + withdrawable
               /\ o.balance[owner] = balance[owner] + withdrawable
               /\ o.balance[Contract] = balance[Contract] - withdrawable
               /\ \A a \in Addresses \ {owner} : o.balance[a] = balance[a]

WithdrawErrors ==
    {"NotReceiptOwner", "AlreadyCancelled", "StreamPaused", "StreamFrozen",
     "InsufficientBalance"}

\* C6 (guards of withdraw): withdraw succeeds only when the caller owns the
\* receipt, the stream is neither cancelled nor paused nor frozen, and the
\* withdrawable amount is positive; in every other case it returns the
\* error of a guard that fails, the records stay as they were and no token
\* moves.
WithdrawGuards ==
    \A id \in StreamIds, caller \in Addresses, ext \in Exts :
        LET stream == streams[id]
            is_owner == receipts[id].owner = caller
            u == calculate_unlocked(stream, now, ext.checks)
            positive == u.ok /\ u.val - stream.withdrawn_amount > 0
            allowed == /\ is_owner
                       /\ ~stream.cancelled
                       /\ ~stream.is_paused
                       /\ ~stream.is_frozen
                       /\ positive
            o == withdraw(id, caller, ext)
        IN /\ o.err = "Ok" => allowed
           /\ ~allowed => o.err \in WithdrawErrors
           /\ o.err = "NotReceiptOwner" => ~is_owner
           /\ o.err = "AlreadyCancelled" => stream.cancelled
           /\ o.err = "StreamPaused" => stream.is_paused
           /\ o.err = "StreamFrozen" => stream.is_frozen
           /\ o.err = "InsufficientBalance" => ~positive
           /\ o.err # "Ok" =>
                  /\ o.streams = streams
                  /\ o.receipts = receipts
                  /\ o.balance = balance
                  /\ o.amount = 0

\* A frozen stream with tokens to withdraw, after an earlier withdrawal:
\* its receipt owner is refused with StreamFrozen, a stranger with
\* NotReceiptOwner.
WithdrawGuardsWitness ==
    \E id \in StreamIds, ext \in Exts :
        /\ paid[id] > 0
        /\ streams[id].is_frozen
        /\ unlocked(streams[id], now).val > streams[id].withdrawn_amount
        /\ withdraw(id, receipts[id].owner, ext).err = "StreamFrozen"
        /\ withdraw(id, streams[id].sender, ext).err = "NotReceiptOwner"

(***************************************************************************)
(* Properties of the cancelled state.                                      *)
(***************************************************************************)

\* C7 (cancelled is terminal): once a stream is cancelled no operation
\* changes a field of its record or of its receipt.
CancelledIsTerminal ==
    [][\A id \in StreamIds :
           streams[id].cancelled =>
               /\ streams'[id] = streams[id]
               /\ receipts'[id] = receipts[id]]_vars

\* C8 (second terminal transition): on a cancelled stream, cancel by the
\* sender or the receipt owner, resolve_dispute by the arbiter and
\* governance_clawback by a compliance officer fail with AlreadyCancelled
\* and move no token.
SecondTerminalTransitionFails ==
    \A id \in StreamIds :
        LET stream == streams[id]
            refused(o) == /\ o.err = "AlreadyCancelled"
                          /\ o.balance = balance
                          /\ o.streams = streams
        IN stream.cancelled =>
               /\ \A caller \in {stream.sender, receipts[id].owner}, ext \in Exts :
                      refused(cancel(id, caller, ext))
               /\ \A receiver_bps \in BpsChoices :
                      stream.arbiter # None =>
                          refused(resolve_dispute(id, stream.arbiter, receiver_bps))
               /\ \A officer \in Officers, issuer \in Officers :
                      refused(governance_clawback(id, officer, issuer))

\* A stream with an arbiter that cancel closed after a withdrawal, whose
\* receipt has since moved to an owner who is not the receiver.
SecondTerminalTransitionWitness ==
    \E id \in StreamIds :
        /\ streams[id].cancelled
        /\ streams[id].withdrawn > 0
        /\ streams[id].withdrawn_amount > 0
        /\ streams[id].arbiter # None
        /\ receipts[id].owner # streams[id].receiver

(***************************************************************************)
(* Properties of pause and resume.                                         *)
(***************************************************************************)

\* The ledger times at which the unlocked amount is looked at.
Horizon == 2
Times(from) == from .. (MaxTime + Horizon)

\* C9 (pause non-accrual): while a stream is paused, having been paused at
\* p > start_time, unlocked(t) is the same for every t >= p: the amount
\* that was unlocked at p when the stream was still running.
PauseNonAccrual ==
    \A id \in StreamIds, checks \in BOOLEAN :
        LET stream == streams[id]
            p == stream.paused_time
            running == [stream EXCEPT !.is_paused = FALSE]
        IN (stream.is_paused /\ p > stream.start_time) =>
               \A t \in Times(p) :
                   calculate_unlocked(stream, t, checks) =
                       calculate_unlocked(running, p, checks)

\* A stream paused in mid-course two ticks ago, part of it unlocked.
PauseNonAccrualWitness ==
    \E id \in StreamIds :
        LET stream == streams[id]
        IN /\ stream.is_paused
           /\ stream.paused_time > stream.start_time
           /\ now >= stream.paused_time + 2
           /\ unlocked(stream, now).val > 0
           /\ unlocked(stream, now).val < stream.total_amount
           /\ unlocked([stream EXCEPT !.is_paused = FALSE], now).val >
                  unlocked(stream, now).val

PauseIdempotent ==
    \A id \in StreamIds, ext \in Exts :
        LET stream == streams[id]
            unchanged(o) == /\ o.err = "Ok"
                            /\ o.streams = streams
                            /\ o.receipts = receipts
                            /\ o.balance = balance
        IN ~stream.cancelled =>
               /\ stream.is_paused => unchanged(pause_stream(id, stream.sender))
               /\ ~stream.is_paused =>
                      unchanged(unpause_stream(id, stream.sender, ext))

\* A stream in its second pause, begun a tick ago: pausing it again would
\* otherwise move paused_time, and it carries the length of its first pause.
PauseIdempotentWitness ==
    \E id \in StreamIds :
        /\ ~streams[id].cancelled
        /\ streams[id].is_paused
        /\ streams[id].start_time < streams[id].paused_time
        /\ streams[id].paused_time < now
        /\ streams[id].total_paused_duration > 0
        /\ pause_stream(id, streams[id].sender).err = "Ok"

(***************************************************************************)
(* Top-ups: one stream over [100, 200], created at time 0, that its sender *)
(* tops up while the receiver withdraws (topup_test.rs).                   *)
(***************************************************************************)
TopUpStep == 50
TopUpMaxTime == 450
\* What the sender holds after creating the stream.
TopUpFunds == 2000
\* 1000 over 100 seconds flows at 10 a second, 250 at 2 (2.5 floored), and
\* 50 at 0 (0.5 floored).
TopUpTotals == {1000, 250, 50}
TopUpAmounts == {1000, 705}

InitTopUp ==
    /\ now = 0
    /\ Quiet
    /\ \E total_amount \in TopUpTotals :
           /\ acct = Account(total_amount, 100, 100, 200)
           /\ streams = Put(<<>>, 0, NewStream("alice", "bob", total_amount,
                                100, 200, <<>>, "Linear", FALSE))
           /\ balance = [a \in Addresses \cup {Contract} |->
                             IF a = Contract THEN total_amount
                             ELSE IF a = "alice" THEN TopUpFunds
                             ELSE 0]
           /\ deposited = Put(<<>>, 0, total_amount)
    /\ stream_count = 1
    /\ receipts = Put(<<>>, 0, [stream_id |-> 0, owner |-> "bob", minted_at |-> 0])
    /\ vault_shares = <<>>
    /\ paid = Put(<<>>, 0, 0)

TickTopUp ==
    /\ now < TopUpMaxTime
    /\ now' = now + TopUpStep
    /\ UNCHANGED <<stream_count, streams, receipts, balance, vault_shares,
                   deposited, paid, acct, proposal_count, proposals, in_call>>

TopUpBy ==
    \E id \in Ids, caller \in Addresses, amount \in TopUpAmounts :
        /\ Commit(top_up_stream(id, caller, amount))
        /\ deposited' = Add(deposited, id, amount)
        /\ UNCHANGED <<stream_count, paid>>

NextTopUp ==
    \/ TickTopUp
    \/ TopUpBy
    \/ Withdraw

SpecTopUp == InitTopUp /\ [][NextTopUp]_vars

\* C12 (top-up arithmetic): a successful top_up_stream(extra) adds extra to
\* total_amount and floor(extra / flow_rate) to end_time, where flow_rate is
\* floor(total_amount / (end_time - start_time)) of the values before the
\* top-up, and leaves start_time and withdrawn_amount alone; top-ups
\* compose: 1000 over [100, 200] topped up by 1000 ends at 300 with 2000,
\* topped up by 1000 again ends at 400 with 3000.
TopUpArithmetic ==
    /\ \A id \in StreamIds, sender \in Addresses, extra \in TopUpAmounts :
           LET stream == streams[id]
               o == top_up_stream(id, sender, extra)
               flow_rate == stream.total_amount
                                \div (stream.end_time - stream.start_time)
           IN o.err = "Ok" =>
                  /\ flow_rate > 0
                  /\ o.streams[id].total_amount = stream.total_amount + extra
                  /\ o.streams[id].end_time
                         = stream.end_time + (extra \div flow_rate)
                  /\ o.streams[id].start_time = stream.start_time
                  /\ o.streams[id].withdrawn_amount = stream.withdrawn_amount
    /\ acct.total_amount = 1000 =>
           /\ streams[0].total_amount = 2000 => streams[0].end_time = 300
           /\ streams[0].total_amount = 3000 => streams[0].end_time = 400

\* The stream of 1000 after its second top-up by 1000, part of it withdrawn.
TopUpArithmeticWitness ==
    /\ acct.total_amount = 1000
    /\ streams[0].total_amount = 3000
    /\ streams[0].end_time = 400
    /\ streams[0].withdrawn_amount > 0
    /\ deposited[0] = 3000

\* C13 (zero-rate top-up): when the flow rate floors to 0 (total_amount less
\* than end_time - start_time), a top_up_stream with extra > 0 by the sender,
\* who holds the tokens, on a stream that is not cancelled and before its
\* end_time returns success, raises total_amount by extra and leaves
\* end_time where it was.
ZeroRateTopUpAccepted ==
    \A id \in StreamIds, extra \in TopUpAmounts :
        LET stream == streams[id]
            o == top_up_stream(id, stream.sender, extra)
        IN /\ stream.total_amount < stream.end_time - stream.start_time
           /\ ~stream.cancelled
           /\ now < stream.end_time
           /\ balance[stream.sender] >= extra
           => /\ o.err = "Ok"
              /\ o.streams[id].total_amount = stream.total_amount + extra
              /\ o.streams[id].end_time = stream.end_time

\* C14 (soulbound streams keep their receiver): on a stream created with
\* is_soulbound, transfer_receiver fails with StreamIsSoulbound for every
\* caller, the sender included, and every new receiver, whether the stream
\* is active, paused or cancelled, and changes nothing: the soulbound check
\* is decided before the sender and cancelled checks.
SoulboundNeverTransfers ==
    \A id \in StreamIds, caller \in Addresses, new_receiver \in Addresses :
        LET o == transfer_receiver(id, caller, new_receiver)
        IN streams[id].is_soulbound =>
               /\ o.err = "StreamIsSoulbound"
               /\ o.streams = streams
               /\ o.receipts = receipts

\* A soulbound stream that was paused and then cancelled, and its sender
\* asking for another receiver: the cancelled check would answer otherwise.
SoulboundNeverTransfersWitness ==
    \E id \in StreamIds :
        /\ streams[id].is_soulbound
        /\ streams[id].cancelled
        /\ streams[id].is_paused
        /\ transfer_receiver(id, streams[id].sender, "carol").err
               = "StreamIsSoulbound"
        /\ transfer_receiver(id, "carol", "carol").err = "StreamIsSoulbound"

\* C15 (soulbound is immutable): is_soulbound is fixed when the stream is
\* created; no step of any operation (top-up, pause, resumption, transfer,
\* withdrawal, cancellation, dispute, clawback) changes it on an existing
\* stream.
SoulboundImmutable ==
    [][\A id \in StreamIds :
           streams'[id].is_soulbound = streams[id].is_soulbound]_vars

\* A soulbound stream that was paused for a while, resumed, drawn from and
\* cancelled.
SoulboundImmutableWitness ==
    \E id \in StreamIds :
        /\ streams[id].is_soulbound
        /\ streams[id].total_paused_duration > 0
        /\ streams[id].withdrawn_amount > 0
        /\ streams[id].cancelled

\* C16 (the transferred receiver withdraws): right after a successful
\* transfer_receiver has replaced the receiver of a stream, a withdrawal by
\* the previous receiver fails, and when the stream is running and an
\* amount is unlocked and not yet withdrawn, a withdrawal by the new
\* receiver succeeds and pays that amount to the new receiver.
TransferredReceiverWithdraws ==
    [][\A id \in StreamIds, ext \in Exts :
           LET previous == streams[id].receiver
               new_receiver == streams'[id].receiver
           IN previous # new_receiver =>
                  /\ (withdraw(id, previous, ext).err # "Ok")'
                  /\ (/\ ~streams[id].is_paused
                      /\ ~streams[id].is_frozen
                      /\ to_withdraw(streams[id], ext).err = "Ok"
                      /\ to_withdraw(streams[id], ext).val > 0)'
                     => (LET o == withdraw(id, streams[id].receiver, ext)
                         IN /\ o.err = "Ok"
                            /\ o.to = streams[id].receiver
                            /\ o.amount = to_withdraw(streams[id], ext).val)']_vars

(***************************************************************************)
(* The unlock curves on their own: the parameters are drawn once, the      *)
(* clock advances and the curves of math.rs and of lib.rs are evaluated at *)
(* some of its times (math.rs mod proofs).                                 *)
(***************************************************************************)
\* The largest total the proofs of math.rs assume, i64::MAX, at the scale
\* of U64Modulus and I128Max: its product with a u64 fits an i128.
I64Max == 16383
CurveTotals == {0, 7, 1000, I64Max}
\* With the largest total the square of 300 of the 400 seconds of the long
\* schedule overflows.
CurveSchedules ==
    { [start |-> 1, cliff |-> 1, end |-> 4, step |-> 1],
      [start |-> 1, cliff |-> 3, end |-> 4, step |-> 1],
      [start |-> 100, cliff |-> 200, end |-> 500, step |-> 100] }
CurveTypes == {"Linear", "Exponential"}
\* No milestones, or a quarter at the cliff and the whole at the end.
CurveMilestones(s) ==
    { <<>>,
      << [timestamp |-> s.cliff, percentage |-> 25],
         [timestamp |-> s.end, percentage |-> 100] >> }

\* The parameters and the amounts seen so far, each with its time.
Curve(total_amount, s) ==
    [total_amount |-> total_amount, start |-> s.start, cliff |-> s.cliff,
     end |-> s.end, step |-> s.step, seen |-> <<>>, times |-> <<>>]

InitCurve ==
    /\ now = 0
    /\ Quiet
    /\ \E total_amount \in CurveTotals, s \in CurveSchedules,
          curve_type \in CurveTypes :
           \E milestones \in CurveMilestones(s) :
               /\ acct = Curve(total_amount, s)
               /\ streams = Put(<<>>, 0, NewStream("alice", "bob", total_amount,
                                    s.start, s.end, milestones, curve_type, FALSE))
    /\ stream_count = 1
    /\ receipts = Put(<<>>, 0, [stream_id |-> 0, owner |-> "bob", minted_at |-> 0])
    /\ vault_shares = <<>>
    /\ balance = [a \in Addresses \cup {Contract} |->
                      IF a = Contract THEN acct.total_amount ELSE 0]
    /\ deposited = Put(<<>>, 0, acct.total_amount)
    /\ paid = Put(<<>>, 0, 0)

TickCurve ==
    /\ now <= acct.end
    /\ now' = now + acct.step
    /\ UNCHANGED <<stream_count, streams, receipts, balance, vault_shares,
                   deposited, paid, acct, proposal_count, proposals, in_call>>

\* The four curves at the current time.
Amounts ==
    [linear |-> calculate_unlocked_amount(acct.total_amount, acct.start,
                                          acct.end, now),
     cliff |-> math_calculate_unlocked(acct.total_amount, acct.start,
                                       acct.cliff, acct.end, now),
     exponential |-> calculate_exponential_unlocked(acct.total_amount,
                                                    acct.start, acct.end, now),
     stream |-> unlocked(streams[0], now)]

Evaluate ==
    /\ LastTime(acct) < now
    /\ acct' = [acct EXCEPT !.seen = Append(@, Amounts),
                            !.times = Append(@, now)]
    /\ UNCHANGED <<now, stream_count, streams, receipts, balance,
                   vault_shares, deposited, paid,
                   proposal_count, proposals, in_call>>

NextCurve ==
    \/ TickCurve
    \/ Evaluate

SpecCurve == InitCurve /\ [][NextCurve]_vars

\* C17 (monotonic unlock): with fixed valid parameters (total >= 0,
\* start < end, no pause, no top-up) the unlocked amount at a later time is
\* at least the amount at an earlier time, for the linear curve, the curve
\* with a cliff, the exponential curve, and the stream's curve of either
\* type with or without milestones of non-decreasing percentages.
MonotonicUnlock ==
    \A i, j \in 1 .. Len(acct.seen) :
        LET a == acct.seen[i]
            b == acct.seen[j]
        IN i <= j =>
               /\ a.linear <= b.linear
               /\ a.cliff <= b.cliff
               /\ a.exponential.ok /\ b.exponential.ok
                      => a.exponential.val <= b.exponential.val
               /\ a.stream.ok /\ b.stream.ok
               /\ a.stream.val <= b.stream.val

\* The exponential stream of the largest total seen while its square still
\* fits and again once the linear amount stands in for it.
MonotonicUnlockWitness ==
    /\ Len(acct.seen) >= 3
    /\ streams[0].curve_type = "Exponential"
    /\ \E i, j \in 1 .. Len(acct.seen) :
           /\ i < j
           /\ acct.seen[i].exponential.ok
           /\ 0 < acct.seen[i].stream.val
           /\ ~acct.seen[j].exponential.ok
           /\ acct.seen[i].stream.val < acct.seen[j].stream.val
           /\ acct.seen[j].stream.val < acct.total_amount

\* C18 (bounded unlock): for valid parameters (total >= 0, start < end,
\* start <= cliff < end) and every time, the unlocked amount is at least 0
\* and at most the total, for the linear curve, the curve with a cliff and
\* the exponential curve, and for the stream's curve.
BoundedUnlock ==
    \A i \in 1 .. Len(acct.seen) :
        LET a == acct.seen[i]
            within(v) == 0 <= v /\ v <= acct.total_amount
        IN /\ within(a.linear)
           /\ within(a.cliff)
           /\ a.exponential.ok => within(a.exponential.val)
           /\ a.stream.ok /\ within(a.stream.val)

\* A curve with a cliff seen on its way, strictly between 0 and the total,
\* and again a step after its end.
BoundedUnlockWitness ==
    /\ acct.start < acct.cliff
    /\ \E i, j \in 1 .. Len(acct.seen) :
           /\ 0 < acct.seen[i].cliff
           /\ acct.seen[i].cliff < acct.total_amount
           /\ 0 < acct.seen[i].exponential.val
           /\ acct.times[j] > acct.end
           /\ acct.seen[j].cliff = acct.total_amount

\* C19 (terminal exactness): for a stream that is not paused and has no
\* accumulated pause, at every time at or after end_time the unlocked
\* amount is exactly total_amount, for the linear and the exponential
\* curve, with or without milestones.
TerminalExactness ==
    \A i \in 1 .. Len(acct.seen) :
        acct.times[i] >= acct.end =>
            /\ acct.seen[i].linear = acct.total_amount
            /\ acct.seen[i].exponential = Ok(acct.total_amount)
            /\ acct.seen[i].stream = Ok(acct.total_amount)

\* An exponential stream with milestones seen at its end and a step later.
TerminalExactnessWitness ==
    /\ streams[0].curve_type = "Exponential"
    /\ streams[0].milestones # <<>>
    /\ ~streams[0].is_paused
    /\ streams[0].total_paused_duration = 0
    /\ acct.total_amount > 0
    /\ \E i, j \in 1 .. Len(acct.seen) :
           /\ acct.times[i] = acct.end
           /\ acct.times[j] > acct.end
           /\ acct.seen[j].stream.val = acct.total_amount

\* C20 (nothing unlocks early): the unlocked amount is 0 at every time up
\* to and including start_time and, with a cliff (start <= cliff < end), at
\* every time before the cliff; at the cliff it is
\* floor(total * (cliff - start) / (end - start)).
NothingUnlocksEarly ==
    \A i \in 1 .. Len(acct.seen) :
        LET a == acct.seen[i]
            t == acct.times[i]
        IN /\ t <= acct.start =>
                  /\ a.linear = 0
                  /\ a.exponential = Ok(0)
                  /\ a.stream = Ok(0)
           /\ t < acct.cliff => a.cliff = 0
           /\ t = acct.cliff =>
                  a.cliff = (acct.total_amount * (acct.cliff - acct.start))
                                \div (acct.end - acct.start)

\* A curve seen at its start, between start and cliff, where the curve
\* without a cliff has already released, and at the cliff, where the jump
\* is positive.
NothingUnlocksEarlyWitness ==
    \E i, j, k \in 1 .. Len(acct.seen) :
        /\ acct.times[i] = acct.start
        /\ acct.start < acct.times[j]
        /\ acct.times[j] < acct.cliff
        /\ acct.seen[j].linear > 0
        /\ acct.seen[j].cliff = 0
        /\ acct.times[k] = acct.cliff
        /\ acct.seen[k].cliff > 0

(***************************************************************************)
(* Streams with milestones: one stream of 1000 over [0, 4] that its sender *)
(* pauses and resumes while the receiver withdraws (test_hybrid_streaming, *)
(* test_quarterly_vesting at a quarter of a year a tick).                  *)
(***************************************************************************)
MilestoneTotal == 1000
MilestoneSets ==
    { << [timestamp |-> 2, percentage |-> 50] >>,
      << [timestamp |-> 1, percentage |-> 25], [timestamp |-> 2, percentage |-> 50],
         [timestamp |-> 3, percentage |-> 75], [timestamp |-> 4, percentage |-> 100] >> }

InitMilestone ==
    /\ now = 0
    /\ Quiet
    /\ \E milestones \in MilestoneSets, curve_type \in CurveTypes :
           streams = Put(<<>>, 0, NewStream("alice", "bob", MilestoneTotal, 0, 4,
                                            milestones, curve_type, FALSE))
    /\ stream_count = 1
    /\ receipts = Put(<<>>, 0, [stream_id |-> 0, owner |-> "bob", minted_at |-> 0])
    /\ vault_shares = <<>>
    /\ balance = [a \in Addresses \cup {Contract} |->
                      IF a = Contract THEN MilestoneTotal ELSE 0]
    /\ deposited = Put(<<>>, 0, MilestoneTotal)
    /\ paid = Put(<<>>, 0, 0)
    /\ acct = NoAccount

NextMilestone ==
    \/ Tick
    \/ Pause
    \/ Unpause
    \/ Withdraw

SpecMilestone == InitMilestone /\ [][NextMilestone]_vars

\* C21 (milestones cap and never accelerate): for a stream with milestones
\* at a time before its pause-adjusted end, unlocked(now) is the smaller of
\* the curve's value and the cap, the largest floor(total * percentage / 100)
\* over the milestones with timestamp <= now (0 when none is reached); so
\* it is never above what the stream would unlock without milestones.
MilestonesCap ==
    \A id \in StreamIds :
        LET stream == streams[id]
            curve_value == unlocked([stream EXCEPT !.milestones = <<>>], now).val
            cap == MilestoneCap(stream.milestones, stream.total_amount, now, 0)
        IN /\ stream.milestones # <<>>
           /\ effective_time_of(stream, now)
                  < stream.end_time + stream.total_paused_duration
           => /\ unlocked(stream, now).ok
              /\ unlocked(stream, now).val
                     = (IF curve_value < cap THEN curve_value ELSE cap)
              /\ unlocked(stream, now).val <= curve_value

\* C22 (exponential overflow is a distinct failure): when total * elapsed^2
\* (or a square) does not fit an i128 the exponential computation reports
\* a failure, and a withdrawal from an Exponential stream at such a time
\* aborts instead of paying an amount taken from another formula.
ExponentialOverflowAborts ==
    \A ext \in Exts :
        LET stream == streams[0]
            e == calculate_exponential_unlocked(stream.total_amount,
                     stream.start_time, stream.end_time, now)
        IN /\ stream.curve_type = "Exponential"
           /\ stream.start_time < now
           /\ now < stream.end_time
           /\ ~e.ok
           => withdraw(0, "bob", ext).err # "Ok"

(***************************************************************************)
(* USD-pegged streams: beside the background stream the sender opens one   *)
(* stream worth 8 USD, and the receiver withdraws at the oracle's prices.  *)
(***************************************************************************)
\* Prices carry 7 decimals: half a USD, 1 USD, 2 USD and 3 USD a token, and 0.
UsdPrices == {0, 5000000, 10000000, 20000000, 30000000}
UsdProfiles ==
    { [usd_amount |-> 8, start_time |-> 1, end_time |-> 4, max_staleness |-> 1,
       min_price |-> 10000000, max_price |-> 20000000] }
\* The oracle's answers at the current time and the build's overflow
\* behaviour; the oracle's timestamp is not in the future.
UsdExts ==
    [checks : BOOLEAN, price : UsdPrices, price_time : 0 .. now, vault_out : {0}]

\* lib.rs create_usd_pegged_stream
create_usd_pegged_stream(sender, receiver, usd_amount, start_time, end_time, max_staleness, min_price, max_price, ext) ==
    IF start_time >= end_time THEN Abort("InvalidTimeRange")
    ELSE IF usd_amount <= 0 THEN Abort("InvalidAmount")
    ELSE LET price == get_price(ext.price, ext.price_time, max_staleness, ext.checks)
         IN IF price.err = "Panic" THEN Abort("Panic")
            ELSE IF price.err = "Err" THEN Abort("OracleFailed")
            ELSE IF price.val < min_price \/ price.val > max_price
                 THEN Abort("PriceOutOfBounds")
            ELSE LET initial_amount == calculate_token_amount(usd_amount, price.val)
                     paid_in == Transfer(balance, sender, Contract,
                                         initial_amount.val)
                     stream_id == stream_count
                     stream == [NewStream(sender, receiver, initial_amount.val,
                                          start_time, end_time, <<>>, "Linear",
                                          FALSE)
                                EXCEPT !.is_usd_pegged = TRUE,
                                       !.usd_amount = usd_amount,
                                       !.oracle_max_staleness = max_staleness,
                                       !.price_min = min_price,
                                       !.price_max = max_price]
                 IN IF ~initial_amount.ok THEN Abort("InvalidAmount")
                    ELSE IF ~paid_in.ok THEN Abort("Panic")
                    ELSE Outcome("Ok", Put(streams, stream_id, stream),
                                 mint_receipt(receipts, stream_id, receiver),
                                 paid_in.val, vault_shares,
                                 initial_amount.val, Contract, 0, 0)

CreateUsd ==
    \E sender \in Senders, receiver \in Receivers, p \in UsdProfiles,
       ext \in UsdExts :
        LET o == create_usd_pegged_stream(sender, receiver, p.usd_amount,
                     p.start_time, p.end_time, p.max_staleness, p.min_price,
                     p.max_price, ext)
        IN /\ stream_count \in Ids
           /\ now = 0
           /\ Commit(o)
           /\ stream_count' = stream_count + 1
           /\ deposited' = Put(deposited, stream_count, o.amount)
           /\ paid' = Put(paid, stream_count, 0)

WithdrawUsd ==
    \E id \in Ids, caller \in Addresses, ext \in UsdExts :
        LET o == withdraw(id, caller, ext)
        IN /\ Commit(o)
           /\ paid' = Add(paid, id, o.amount)
           /\ UNCHANGED <<stream_count, deposited>>

NextUsd ==
    \/ Tick
    \/ CreateUsd
    \/ WithdrawUsd
    \/ Pause
    \/ Unpause

SpecUsd == Init /\ [][NextUsd]_vars

\* C23 (USD-peg solvency): for a USD-pegged stream, whatever fresh prices
\* within [price_min, price_max] the withdrawals were made at, the tokens
\* withdrawn (withdrawn_amount) never exceed the tokens deposited at
\* creation (total_amount = floor(usd_amount * 10^7 / creation price)).
UsdSolvency ==
    \A id \in StreamIds :
        streams[id].is_usd_pegged =>
            /\ streams[id].total_amount = deposited[id]
            /\ streams[id].withdrawn_amount <= streams[id].total_amount
            /\ paid[id] <= deposited[id]

\* C24 (bad oracle prices abort the withdrawal): for a USD-pegged stream a
\* withdraw for which the oracle's price is older than max_staleness, is
\* not positive, or lies outside [price_min, price_max] fails (for the
\* receipt owner of a running stream with OracleStalePrice or
\* PriceOutOfBounds), the stream record is unchanged and no token moves.
BadPriceAborts ==
    \A id \in StreamIds, caller \in Addresses, ext \in UsdExts :
        LET stream == streams[id]
            o == withdraw(id, caller, ext)
            stale == now - ext.price_time > stream.oracle_max_staleness
            outside == ext.price < stream.price_min \/ ext.price > stream.price_max
        IN stream.is_usd_pegged /\ (stale \/ ext.price <= 0 \/ outside) =>
               /\ o.err # "Ok"
               /\ o.streams = streams
               /\ o.balance = balance
               /\ o.amount = 0
               /\ withdraw_guards(stream, receipts[id], caller) = "Ok" =>
                      o.err = (IF stale \/ ext.price <= 0 THEN "OracleStalePrice"
                               ELSE "PriceOutOfBounds")

\* A pegged stream already drawn from, where a fresh price within the
\* bounds would pay again and the same price, two ticks old, is refused,
\* as is a fresh price above the bounds.
BadPriceAbortsWitness ==
    \E id \in StreamIds :
        /\ streams[id].is_usd_pegged
        /\ streams[id].withdrawn_amount > 0
        /\ now >= 2
        /\ withdraw(id, "bob", [checks |-> TRUE, price |-> 10000000,
                                price_time |-> now, vault_out |-> 0]).err = "Ok"
        /\ withdraw(id, "bob", [checks |-> TRUE, price |-> 10000000,
                                price_time |-> now - 2, vault_out |-> 0]).err
               = "OracleStalePrice"
        /\ withdraw(id, "bob", [checks |-> TRUE, price |-> 30000000,
                                price_time |-> now, vault_out |-> 0]).err
               = "PriceOutOfBounds"

(***************************************************************************)
(* interest.rs calculate_interest_distribution, on its own: an amount of   *)
(* interest and a strategy mask are drawn, then the split is computed.     *)
(***************************************************************************)
INTEREST_TO_SENDER == 1
INTEREST_TO_RECEIVER == 2
INTEREST_TO_PROTOCOL == 4

\* strategy & bit, for a bit that is a power of two.
BitAnd(strategy, bit) == ((strategy \div bit) % 2) * bit

Distribution(to_sender, to_receiver, to_protocol, total_interest) ==
    [to_sender |-> to_sender, to_receiver |-> to_receiver,
     to_protocol |-> to_protocol, total_interest |-> total_interest]

\* The custom split that drops the remainder of the division.
custom_split_truncated(total_interest, strategy) ==
    LET sender_bit == BitAnd(strategy, INTEREST_TO_SENDER)
        receiver_bit == BitAnd(strategy, INTEREST_TO_RECEIVER)
        protocol_bit == BitAnd(strategy, INTEREST_TO_PROTOCOL)
        total_bits == (IF sender_bit > 0 THEN 1 ELSE 0)
                          + (IF receiver_bit > 0 THEN 1 ELSE 0)
                          + (IF protocol_bit > 0 THEN 1 ELSE 0)
    IN IF total_bits = 0 THEN <<0, total_interest, 0>>
       ELSE LET share == total_interest \div total_bits
                remainder == 0
                to_sender == IF sender_bit > 0 THEN share ELSE 0
                to_receiver == IF receiver_bit > 0 THEN share ELSE 0
                to_protocol == IF protocol_bit > 0 THEN share ELSE 0
            IN IF sender_bit > 0
               THEN <<to_sender + remainder, to_receiver, to_protocol>>
               ELSE IF receiver_bit > 0
               THEN <<to_sender, to_receiver + remainder, to_protocol>>
               ELSE <<to_sender, to_receiver, to_protocol + remainder>>

\* The custom split that hands a mask without a known bit to the sender.
custom_split_default_sender(total_interest, strategy) ==
    LET sender_bit == BitAnd(strategy, INTEREST_TO_SENDER)
        receiver_bit == BitAnd(strategy, INTEREST_TO_RECEIVER)
        protocol_bit == BitAnd(strategy, INTEREST_TO_PROTOCOL)
        total_bits == (IF sender_bit > 0 THEN 1 ELSE 0)
                          + (IF receiver_bit > 0 THEN 1 ELSE 0)
                          + (IF protocol_bit > 0 THEN 1 ELSE 0)
    IN IF total_bits = 0 THEN <<total_interest, 0, 0>>
       ELSE LET share == total_interest \div total_bits
                remainder == total_interest - (share * total_bits)
                to_sender == IF sender_bit > 0 THEN share ELSE 0
                to_receiver == IF receiver_bit > 0 THEN share ELSE 0
                to_protocol == IF protocol_bit > 0 THEN share ELSE 0
            IN IF sender_bit > 0
               THEN <<to_sender + remainder, to_receiver, to_protocol>>
               ELSE IF receiver_bit > 0
               THEN <<to_sender, to_receiver + remainder, to_protocol>>
               ELSE <<to_sender, to_receiver, to_protocol + remainder>>

\* The last arm of the match: the split by the bits of the mask.
custom_split(total_interest, strategy) ==
    LET sender_bit == BitAnd(strategy, INTEREST_TO_SENDER)
        receiver_bit == BitAnd(strategy, INTEREST_TO_RECEIVER)
        protocol_bit == BitAnd(strategy, INTEREST_TO_PROTOCOL)
        total_bits == (IF sender_bit > 0 THEN 1 ELSE 0)
                          + (IF receiver_bit > 0 THEN 1 ELSE 0)
                          + (IF protocol_bit > 0 THEN 1 ELSE 0)
    IN IF total_bits = 0 THEN <<0, total_interest, 0>>
       ELSE LET share == total_interest \div total_bits
                remainder == total_interest - (share * total_bits)
                to_sender == IF sender_bit > 0 THEN share ELSE 0
                to_receiver == IF receiver_bit > 0 THEN share ELSE 0
                to_protocol == IF protocol_bit > 0 THEN share ELSE 0
            IN IF sender_bit > 0
               THEN <<to_sender + remainder, to_receiver, to_protocol>>
               ELSE IF receiver_bit > 0
               THEN <<to_sender, to_receiver + remainder, to_protocol>>
               ELSE <<to_sender, to_receiver, to_protocol + remainder>>

calculate_interest_distribution(total_interest, strategy) ==
    IF total_interest <= 0 THEN Distribution(0, 0, 0, 0)
    ELSE LET parts ==
                 IF strategy = INTEREST_TO_SENDER THEN <<total_interest, 0, 0>>
                 ELSE IF strategy = INTEREST_TO_RECEIVER THEN <<0, total_interest, 0>>
                 ELSE IF strategy = INTEREST_TO_PROTOCOL THEN <<0, 0, total_interest>>
                 ELSE IF strategy = 3
                 THEN LET half == total_interest \div 2
                          remainder == total_interest - (half * 2)
                      IN <<half + remainder, half, 0>>
                 ELSE IF strategy = 7
                 THEN LET third == total_interest \div 3
                          remainder == total_interest - (third * 3)
                      IN <<third + remainder, third, third>>
                 ELSE custom_split(total_interest, strategy)
         IN Distribution(parts[1], parts[2], parts[3], total_interest)

MaxInterest == 10
InterestTotals == (-2 .. MaxInterest) \cup {1000, 1001}
MaxStrategy == 9
Strategies == (0 .. MaxStrategy) \cup {14, 16, 99}

\* The request and, once computed, its distribution.
InitInterest ==
    /\ now = 0
    /\ Quiet
    /\ stream_count = 0
    /\ streams = <<>>
    /\ receipts = <<>>
    /\ vault_shares = <<>>
    /\ balance = [a \in Addresses \cup {Contract} |-> 0]
    /\ deposited = <<>>
    /\ paid = <<>>
    /\ \E total_interest \in InterestTotals, strategy \in Strategies :
           acct = [total_interest |-> total_interest, strategy |-> strategy,
                   computed |-> FALSE, dist |-> Distribution(0, 0, 0, 0)]

Distribute ==
    /\ ~acct.computed
    /\ acct' = [acct EXCEPT !.computed = TRUE,
                            !.dist = calculate_interest_distribution(
                                         acct.total_interest, acct.strategy)]
    /\ UNCHANGED <<now, stream_count, streams, receipts, balance, vault_shares,
                   deposited, paid,
                   proposal_count, proposals, in_call>>

NextInterest == Distribute

SpecInterest == InitInterest /\ [][NextInterest]_vars

\* C25 (interest conservation): for every total_interest >= 0 and every
\* strategy mask, 0 and masks above 7 included, the three shares are not
\* negative and add up to total_interest; for total_interest <= 0 all
\* three are 0.
InterestConservation ==
    acct.computed =>
        /\ acct.dist.to_sender >= 0
        /\ acct.dist.to_receiver >= 0
        /\ acct.dist.to_protocol >= 0
        /\ acct.total_interest >= 0 =>
               acct.dist.to_sender + acct.dist.to_receiver + acct.dist.to_protocol
                   = acct.total_interest
        /\ acct.total_interest <= 0 =>
               /\ acct.dist.to_sender = 0
               /\ acct.dist.to_receiver = 0
               /\ acct.dist.to_protocol = 0

\* An amount that does not divide by two, split between receiver and
\* protocol by a mask above 7 with two of the three bits.
InterestConservationWitness ==
    /\ acct.computed
    /\ acct.total_interest = 1001
    /\ acct.strategy = 14
    /\ acct.dist.to_receiver = 501
    /\ acct.dist.to_protocol = 500

\* C26 (interest split rule): the distribution is the reference split:
\* every party whose bit (1 sender, 2 receiver, 4 protocol) is set in the
\* mask gets floor(total / number of set bits) and the first set party, in
\* the order sender, receiver, protocol, gets the remainder too; a mask
\* with none of the three bits gives everything to the receiver.  So masks
\* 1, 2, 4 give all to one party, mask 3 halves and mask 7 thirds with the
\* remainder to the sender (1000 -> 334/333/333).
InterestSplitRule ==
    LET t == acct.total_interest
        has(bit) == (acct.strategy \div bit) % 2 = 1
        set == <<has(1), has(2), has(4)>>
        n == Cardinality({i \in 1 .. 3 : set[i]})
        first == CHOOSE i \in 1 .. 3 : set[i] /\ \A j \in 1 .. (i - 1) : ~set[j]
        expected(i) ==
            IF n = 0 THEN (IF i = 2 THEN t ELSE 0)
            ELSE IF ~set[i] THEN 0
            ELSE (t \div n) + (IF i = first THEN t - n * (t \div n) ELSE 0)
    IN acct.computed /\ t >= 0 =>
           /\ acct.dist.to_sender = expected(1)
           /\ acct.dist.to_receiver = expected(2)
           /\ acct.dist.to_protocol = expected(3)
           /\ t = 1000 /\ acct.strategy = 7 =>
                  /\ acct.dist.to_sender = 334
                  /\ acct.dist.to_receiver = 333
                  /\ acct.dist.to_protocol = 333

\* 7 split between sender and protocol by mask 5: 4 and 3.
InterestSplitRuleWitness ==
    /\ acct.computed
    /\ acct.total_interest = 7
    /\ acct.strategy = 5
    /\ acct.dist = Distribution(4, 0, 3, 7)

(***************************************************************************)
(* voting.rs get_voting_power and its entry point in lib.rs.               *)
(***************************************************************************)
voting_get_voting_power(stream, current_time) ==
    IF stream.cancelled THEN 0
    ELSE LET unlocked_now ==
                 IF current_time < stream.start_time THEN 0
                 ELSE IF current_time >= stream.end_time THEN stream.total_amount
                 ELSE (stream.total_amount * (current_time - stream.start_time))
                          \div (stream.end_time - stream.start_time)
         IN unlocked_now - stream.withdrawn_amount

get_voting_power(id) == voting_get_voting_power(streams[id], now)

\* C27 (voting power is the withdrawable balance): get_voting_power(id) is
\* 0 for a cancelled stream and otherwise the amount a withdraw at the same
\* ledger time computes, unlocked(now) - withdrawn_amount, for every curve
\* type and pause state of the stream.
VotingPowerIsWithdrawable ==
    \A id \in StreamIds :
        get_voting_power(id)
            = (IF streams[id].cancelled THEN 0
               ELSE unlocked(streams[id], now).val - streams[id].withdrawn_amount)


(***************************************************************************)
(* lib.rs create_proposal, approve_proposal and execute_proposal: a stream *)
(* that is created once enough addresses approved it.                      *)
(***************************************************************************)
ProposalIds == 0 .. (proposal_count - 1)

\* What a proposal call leaves behind.
ProposalOutcome(err, p, s, r, b, count) ==
    [err |-> err, proposals |-> p, streams |-> s, receipts |-> r,
     balance |-> b, stream_count |-> count]

ProposalAbort(err) ==
    ProposalOutcome(err, proposals, streams, receipts, balance, stream_count)

\* lib.rs create_proposal
create_proposal(sender, receiver, total_amount, start_time, end_time, required_approvals, deadline) ==
    IF start_time >= end_time THEN ProposalAbort("InvalidTimeRange")
    ELSE IF total_amount <= 0 THEN ProposalAbort("InvalidAmount")
    ELSE IF required_approvals = 0 THEN ProposalAbort("InvalidApprovalThreshold")
    ELSE IF deadline <= now THEN ProposalAbort("ProposalExpired")
    ELSE LET proposal == [sender |-> sender, receiver |-> receiver,
                          total_amount |-> total_amount,
                          start_time |-> start_time, end_time |-> end_time,
                          approvers |-> <<>>,
                          required_approvals |-> required_approvals,
                          deadline |-> deadline, executed |-> FALSE]
         IN ProposalOutcome("Ok", Put(proposals, proposal_count, proposal),
                            streams, receipts, balance, stream_count)

\* lib.rs execute_proposal, on the proposal as approve_proposal stored it
execute_proposal(stored, proposal) ==
    LET paid_in == Transfer(balance, proposal.sender, Contract, proposal.total_amount)
        stream_id == stream_count
        stream == NewStream(proposal.sender, proposal.receiver,
                            proposal.total_amount, proposal.start_time,
                            proposal.end_time, <<>>, "Linear", FALSE)
    IN IF ~paid_in.ok THEN ProposalAbort("Panic")
       ELSE ProposalOutcome("Ok", stored, Put(streams, stream_id, stream),
                            mint_receipt(receipts, stream_id, proposal.receiver),
                            paid_in.val, stream_count + 1)

\* approve_proposal's checks without the one on the executed flag.
approve_guards_reexecutable(proposal, approver) ==
    IF now > proposal.deadline THEN "ProposalExpired"
    ELSE IF \E i \in 1 .. Len(proposal.approvers) : proposal.approvers[i] = approver
         THEN "AlreadyApproved"
    ELSE "Ok"

\* approve_proposal's checks without the one on the approver list.
approve_guards_repeatable(proposal, approver) ==
    IF proposal.executed THEN "ProposalAlreadyExecuted"
    ELSE IF now > proposal.deadline THEN "ProposalExpired"
    ELSE "Ok"

\* lib.rs approve_proposal: the checks made before the approver is added
approve_guards(proposal, approver) ==
    IF proposal.executed THEN "ProposalAlreadyExecuted"
    ELSE IF now > proposal.deadline THEN "ProposalExpired"
    ELSE IF \E i \in 1 .. Len(proposal.approvers) : proposal.approvers[i] = approver
         THEN "AlreadyApproved"
    ELSE "Ok"

\* lib.rs approve_proposal
approve_proposal(proposal_id, approver) ==
    IF proposal_id \notin DOMAIN proposals THEN ProposalAbort("ProposalNotFound")
    ELSE LET proposal == proposals[proposal_id]
             guard == approve_guards(proposal, approver)
             approved == [proposal EXCEPT !.approvers = Append(@, approver)]
             approval_count == Len(approved.approvers)
         IN IF guard # "Ok" THEN ProposalAbort(guard)
            ELSE IF approval_count >= proposal.required_approvals
            THEN LET done == [approved EXCEPT !.executed = TRUE]
                 IN execute_proposal(Put(proposals, proposal_id, done), done)
            ELSE ProposalOutcome("Ok", Put(proposals, proposal_id, approved),
                                 streams, receipts, balance, stream_count)

\* The proposals made: what is streamed, how many approvals it takes and
\* until when they are accepted.
MaxProposals == 2
ProposalProfiles ==
    { [total_amount |-> 3, required_approvals |-> 2, deadline |-> 3],
      [total_amount |-> 3, required_approvals |-> 1, deadline |-> 2],
      [total_amount |-> 9, required_approvals |-> 1, deadline |-> 4] }

CommitProposal(o) ==
    /\ o.err = "Ok"
    /\ proposals' = o.proposals
    /\ streams' = o.streams
    /\ receipts' = o.receipts
    /\ balance' = o.balance
    /\ stream_count' = o.stream_count
    /\ UNCHANGED <<now, vault_shares, acct, in_call>>

CreateProposal ==
    \E sender \in Senders, receiver \in Receivers, p \in ProposalProfiles :
        /\ proposal_count < MaxProposals
        /\ CommitProposal(create_proposal(sender, receiver, p.total_amount, 1, 4,
                                          p.required_approvals, p.deadline))
        /\ proposal_count' = proposal_count + 1
        /\ UNCHANGED <<deposited, paid>>

ApproveProposal ==
    \E proposal_id \in 0 .. (MaxProposals - 1), approver \in Users :
        LET o == approve_proposal(proposal_id, approver)
        IN /\ CommitProposal(o)
           /\ deposited' = IF o.stream_count = stream_count THEN deposited
                           ELSE Put(deposited, stream_count,
                                    proposals[proposal_id].total_amount)
           /\ paid' = IF o.stream_count = stream_count THEN paid
                      ELSE Put(paid, stream_count, 0)
           /\ UNCHANGED proposal_count

NextProposal == Tick \/ CreateProposal \/ ApproveProposal

SpecProposal == Init /\ [][NextProposal]_vars

\* The proposals executed so far.
Executed == {p \in ProposalIds : proposals[p].executed}

\* C28: a proposal's executed flag goes from false to true only in the
\* approve_proposal call that brings its approvers to required_approvals,
\* and never back; that call, and no other, creates one stream holding the
\* proposal's total_amount, paid in by the proposer; on an executed proposal
\* every approve_proposal fails with ProposalAlreadyExecuted and changes
\* nothing, so there is one stream for each executed proposal and none for
\* a pending one.
ExecutedOnce ==
    /\ [](\A p \in ProposalIds :
            /\ proposals[p].executed
                   <=> Len(proposals[p].approvers) >= proposals[p].required_approvals
            /\ proposals[p].executed =>
                   /\ Len(proposals[p].approvers) = proposals[p].required_approvals
                   /\ \A approver \in Addresses :
                          approve_proposal(p, approver)
                              = ProposalAbort("ProposalAlreadyExecuted"))
    /\ [](stream_count = 1 + Cardinality(Executed))
    /\ [][\A p \in ProposalIds :
            /\ proposals[p].executed => proposals'[p] = proposals[p]
            /\ ~proposals[p].executed /\ proposals'[p].executed =>
                   /\ Len(proposals'[p].approvers) = proposals[p].required_approvals
                   /\ Len(proposals[p].approvers) = proposals[p].required_approvals - 1
                   /\ stream_count' = stream_count + 1
                   /\ streams'[stream_count].total_amount = proposals[p].total_amount
                   /\ streams'[stream_count].withdrawn_amount = 0
                   /\ balance'[Contract] = balance[Contract] + proposals[p].total_amount
                   /\ balance'[proposals[p].sender]
                          = balance[proposals[p].sender] - proposals[p].total_amount
                   /\ \A q \in ProposalIds \ {p} : proposals'[q] = proposals[q]
            /\ stream_count' # stream_count =>
                   \E q \in ProposalIds : ~proposals[q].executed /\ proposals'[q].executed
       ]_vars

\* A proposal needing two approvals was executed by its second approval; a
\* third address that approves it is turned away.
ExecutedOnceWitness ==
    \E p \in ProposalIds :
        /\ proposals[p].executed
        /\ proposals[p].required_approvals = 2
        /\ Len(proposals[p].approvers) = 2
        /\ stream_count >= 2
        /\ \E approver \in Users :
               /\ \A i \in 1 .. 2 : proposals[p].approvers[i] # approver
               /\ approve_proposal(p, approver).err = "ProposalAlreadyExecuted"


\* The addresses on a proposal's approver list.
Approvers(p) == {proposals[p].approvers[i] : i \in 1 .. Len(proposals[p].approvers)}

\* C29: no address is on a proposal's approver list twice; approve_proposal
\* by an address already on the list fails and leaves the proposal, the
\* streams and the balances unchanged, with AlreadyApproved while the
\* proposal is pending and its deadline has not passed (the executed and
\* deadline checks come first); so an executed proposal has at least
\* required_approvals distinct approvers.
DistinctApprovers ==
    \A p \in ProposalIds :
        /\ Cardinality(Approvers(p)) = Len(proposals[p].approvers)
        /\ \A approver \in Approvers(p) :
               LET o == approve_proposal(p, approver)
               IN /\ o.err # "Ok"
                  /\ o = ProposalAbort(o.err)
                  /\ ~proposals[p].executed /\ now <= proposals[p].deadline
                         => o.err = "AlreadyApproved"
        /\ proposals[p].executed
               => Cardinality(Approvers(p)) >= proposals[p].required_approvals

\* A pending proposal needing two approvals has one, and the same address
\* approves again before the deadline.
DistinctApproversWitness ==
    \E p \in ProposalIds :
        /\ ~proposals[p].executed
        /\ proposals[p].required_approvals = 2
        /\ now <= proposals[p].deadline
        /\ Len(proposals[p].approvers) = 1
        /\ approve_proposal(p, proposals[p].approvers[1]).err = "AlreadyApproved"


(***************************************************************************)
(* withdraw in two steps: up to its call of the token contract, with the   *)
(* stream already written (lib.rs 887-888), and from the call's return.    *)
(* While the call is under way the callee may invoke the contract.  No     *)
(* operation of the contract reads or writes DataKey::ReentrancyLock       *)
(* (types.rs 150).                                                         *)
(***************************************************************************)
Snapshot ==
    [streams |-> streams, receipts |-> receipts, balance |-> balance,
     vault_shares |-> vault_shares, deposited |-> deposited, paid |-> paid]

\* withdraw up to token_client.transfer
WithdrawCall ==
    \E id \in Ids, caller \in Addresses, ext \in Exts :
        \E o \in {withdraw(id, caller, ext)} :
            /\ in_call = <<>>
            /\ o.err = "Ok"
            /\ streams[id].vault_address = None
            /\ streams' = o.streams
            /\ in_call' = <<[op |-> "withdraw", id |-> id, to |-> o.to,
                            amount |-> o.amount, before |-> Snapshot]>>
            /\ UNCHANGED <<now, stream_count, receipts, balance, vault_shares,
                           deposited, paid, acct, proposal_count, proposals>>

\* token_client.transfer returns, or panics and the invocation with all it
\* called is rolled back
WithdrawReturn ==
    /\ in_call # <<>>
    /\ LET payout == Transfer(balance, Contract, in_call[1].to, in_call[1].amount)
       IN IF payout.ok
          THEN /\ balance' = payout.val
               /\ paid' = Add(paid, in_call[1].id, in_call[1].amount)
               /\ UNCHANGED <<streams, receipts, vault_shares, deposited>>
          ELSE /\ streams' = in_call[1].before.streams
               /\ receipts' = in_call[1].before.receipts
               /\ balance' = in_call[1].before.balance
               /\ vault_shares' = in_call[1].before.vault_shares
               /\ deposited' = in_call[1].before.deposited
               /\ paid' = in_call[1].before.paid
    /\ in_call' = <<>>
    /\ UNCHANGED <<now, stream_count, acct, proposal_count, proposals>>

\* Between invocations
IdleTick == in_call = <<>> /\ Tick
IdleCreateStream == in_call = <<>> /\ CreateStream

\* Invocations made by the callee during the call
ReenterCancel == in_call # <<>> /\ Cancel
ReenterTopUp == in_call # <<>> /\ TopUp
ReenterPause == in_call # <<>> /\ Pause

NextReentry ==
    \/ IdleTick
    \/ IdleCreateStream
    \/ WithdrawCall
    \/ WithdrawReturn
    \/ ReenterCancel
    \/ ReenterTopUp
    \/ ReenterPause

SpecReentry == Init /\ [][NextReentry]_vars

\* C30: while withdraw is inside its call of the token contract, every
\* mutating call made into the contract (withdraw, cancel, top_up_stream,
\* pause_stream, create_stream_with_milestones) is rejected.
ReentrancyGuard ==
    in_call # <<>> =>
        /\ \A id \in Ids, caller \in Addresses, ext \in Exts :
               /\ withdraw(id, caller, ext).err # "Ok"
               /\ cancel(id, caller, ext).err # "Ok"
               /\ pause_stream(id, caller).err # "Ok"
               /\ \A amount \in TopUps : top_up_stream(id, caller, amount).err # "Ok"
        /\ \A sender \in Senders, receiver \in Receivers, p \in Profiles :
               create_stream_with_milestones(sender, receiver, p.total_amount,
                   p.start_time, p.end_time, <<>>, p.curve_type,
                   p.is_soulbound).err # "Ok"


(***************************************************************************)
(* Streams whose deposit is placed in a vault (lib.rs 310-323, 376-381;    *)
(* vault.rs).  The vault answers a deposit with a number of shares and a   *)
(* withdrawal with an amount of tokens it sends to the contract.           *)
(***************************************************************************)
Vault == "vault"
Rogue == "rogue"
Vaults == {Vault, Rogue}

\* lib.rs is_vault_approved, after approve_vault(admin, Vault)
is_vault_approved(vault) == vault = Vault

\* vault.rs deposit_to_vault: [ok, val = shares, balance]
deposit_to_vault(bal, vault, amount, shares_issued) ==
    IF amount <= 0 THEN [ok |-> FALSE, val |-> 0, balance |-> bal]
    ELSE LET moved == Transfer(bal, Contract, vault, amount)
         IN IF ~moved.ok \/ shares_issued <= 0
            THEN [ok |-> FALSE, val |-> 0, balance |-> bal]
            ELSE [ok |-> TRUE, val |-> shares_issued, balance |-> moved.val]

\* lib.rs create_stream_with_milestones with vault_address = Some(vault);
\* the outcome's amount is the number of shares to store
create_vault_stream(sender, receiver, total_amount, start_time, end_time, vault, shares_issued) ==
    IF start_time >= end_time THEN Abort("InvalidTimeRange")
    ELSE IF total_amount <= 0 THEN Abort("InvalidAmount")
    ELSE IF ~is_vault_approved(vault) THEN Abort("Unauthorized")
    ELSE LET paid_in == Transfer(balance, sender, Contract, total_amount)
             placed == IF paid_in.ok
                       THEN deposit_to_vault(paid_in.val, vault, total_amount,
                                             shares_issued)
                       ELSE [ok |-> FALSE, val |-> 0, balance |-> balance]
             stream_id == stream_count
             stream == [NewStream(sender, receiver, total_amount, start_time,
                                  end_time, <<>>, "Linear", FALSE)
                            EXCEPT !.vault_address = vault]
         IN IF ~paid_in.ok THEN Abort("Panic")
            ELSE IF ~placed.ok THEN Abort("InvalidAmount")
            ELSE Outcome("Ok", Put(streams, stream_id, stream),
                         mint_receipt(receipts, stream_id, receiver),
                         placed.balance,
                         IF placed.val > 0
                         THEN Put(vault_shares, stream_id, placed.val)
                         ELSE vault_shares,
                         placed.val, vault, 0, 0)

\* The vaulted stream: 8 tokens over [1, 5], two a tick.
VaultTotal == 8
\* The shares the vault issues for the deposit, and what it sends back for
\* a withdrawal: nothing, less than asked, or the whole deposit.
SharesIssued == {0, 4, 8}
VaultOuts == {0, 1, 2, 8}
VaultExts == [checks : {TRUE}, price : {0}, price_time : {0}, vault_out : VaultOuts]

InitVault ==
    /\ now = 0
    /\ Quiet
    /\ stream_count = 1
    /\ streams = Put(<<>>, 0, NewStream(Background.sender, Background.receiver,
                          BackgroundAmount, Background.start_time,
                          Background.end_time, <<>>, "Linear", FALSE))
    /\ receipts = Put(<<>>, 0, [stream_id |-> 0, owner |-> Background.receiver,
                                minted_at |-> 0])
    /\ vault_shares = <<>>
    /\ balance = [a \in Addresses \cup {Contract} \cup Vaults |->
                      IF a \in Senders THEN VaultTotal
                      ELSE IF a = Contract THEN BackgroundAmount ELSE 0]
    /\ deposited = Put(<<>>, 0, BackgroundAmount)
    /\ paid = Put(<<>>, 0, 0)
    /\ acct = NoAccount

CreateVaultStream ==
    \E sender \in Senders, receiver \in Receivers, vault \in Vaults, shares_issued \in SharesIssued :
        /\ stream_count \in Ids
        /\ now = 0
        /\ Commit(create_vault_stream(sender, receiver, VaultTotal, 1, 5,
                                      vault, shares_issued))
        /\ stream_count' = stream_count + 1
        /\ deposited' = Put(deposited, stream_count, VaultTotal)
        /\ paid' = Put(paid, stream_count, 0)

WithdrawVault ==
    \E id \in Ids, caller \in Addresses, ext \in VaultExts :
        \E o \in {withdraw(id, caller, ext)} :
            /\ Commit(o)
            /\ paid' = Add(paid, id, o.amount)
            /\ UNCHANGED <<stream_count, deposited>>

CancelVault ==
    \E id \in Ids, caller \in Addresses, ext \in VaultExts :
        \E o \in {cancel(id, caller, ext)} :
            /\ Commit(o)
            /\ paid' = Add(paid, id, o.to_receiver + o.to_sender)
            /\ UNCHANGED <<stream_count, deposited>>

NextVault == Tick \/ CreateVaultStream \/ WithdrawVault \/ CancelVault

SpecVault == InitVault /\ [][NextVault]_vars

\* What an address gains in a step.
Gained(a) == balance'[a] - balance[a]

\* C31 (no partial settlement): a withdraw or cancel that fails leaves the
\* streams, the tracked vault shares and the balances as they were, and it
\* fails whenever the vault withdrawal fails (the vault sends nothing for
\* the shares of a vaulted stream); in every step a stream's
\* withdrawn_amount grows only together with the same payment to its
\* receiver, cancelled is set only together with a payment to the receipt
\* owner or the sender, and nobody is paid without such a change of record.
NoPartialSettlement ==
    /\ [](\A id \in StreamIds, caller \in Addresses, ext \in VaultExts :
            /\ withdraw(id, caller, ext).err # "Ok"
                   => withdraw(id, caller, ext) = Abort(withdraw(id, caller, ext).err)
            /\ cancel(id, caller, ext).err # "Ok"
                   => cancel(id, caller, ext) = Abort(cancel(id, caller, ext).err)
            /\ /\ streams[id].vault_address # None
               /\ get_vault_shares(id) > 0
               /\ ext.vault_out <= 0
               => /\ withdraw(id, caller, ext).err # "Ok"
                  /\ cancel(id, caller, ext).err # "Ok")
    /\ [][/\ \A id \in StreamIds :
                /\ streams'[id].withdrawn_amount # streams[id].withdrawn_amount
                       => Gained(streams[id].receiver)
                              = streams'[id].withdrawn_amount
                                    - streams[id].withdrawn_amount
                /\ streams'[id].cancelled # streams[id].cancelled
                       => Gained(receipts[id].owner) + Gained(streams[id].sender) > 0
                /\ get_vault_shares(id)' # get_vault_shares(id)
                       => \/ streams'[id].withdrawn_amount > streams[id].withdrawn_amount
                          \/ streams'[id].cancelled # streams[id].cancelled
          /\ (\E a \in Addresses : Gained(a) > 0)
                 => \E id \in StreamIds :
                        \/ streams'[id].withdrawn_amount > streams[id].withdrawn_amount
                        \/ streams'[id].cancelled # streams[id].cancelled
       ]_vars

\* On a vaulted stream with tokens to withdraw, one withdraw fails because
\* the vault sends nothing, and another because the contract cannot cover
\* the transfer with what the vault sends.
NoPartialSettlementWitness ==
    \E id \in StreamIds, ext1 \in VaultExts, ext2 \in VaultExts :
        /\ streams[id].vault_address # None
        /\ now > streams[id].start_time
        /\ get_vault_shares(id) > 0
        /\ ext1.vault_out = 0
        /\ withdraw(id, receipts[id].owner, ext1).err = "InsufficientBalance"
        /\ ext2.vault_out > 0
        /\ withdraw(id, receipts[id].owner, ext2).err = "Panic"


(***************************************************************************)
(* Disputes and clawback.                                                  *)
(***************************************************************************)

\* C32: freeze_stream sets is_frozen only for the stream's arbiter: called
\* by any other address on an existing stream it returns Unauthorized and
\* changes nothing; when it succeeds the caller is the arbiter and the
\* stream is frozen afterwards; a frozen stream has an arbiter.
FreezeOnlyByArbiter ==
    \A id \in StreamIds :
        /\ streams[id].is_frozen => streams[id].arbiter # None
        /\ \A caller \in Addresses :
               LET o == freeze_stream(id, caller)
               IN /\ caller # streams[id].arbiter
                      => o = Abort("Unauthorized")
                  /\ o.err = "Ok"
                      => /\ caller = streams[id].arbiter
                         /\ o.streams[id] = [streams[id] EXCEPT !.is_frozen = TRUE]
                         /\ o.balance = balance

\* The arbiter froze a stream; the sender and the receiver are turned away.
FreezeOnlyByArbiterWitness ==
    \E id \in StreamIds :
        /\ streams[id].is_frozen
        /\ ~streams[id].cancelled
        /\ streams[id].sender \in Senders
        /\ freeze_stream(id, streams[id].arbiter).err = "Ok"
        /\ freeze_stream(id, streams[id].sender).err = "Unauthorized"
        /\ freeze_stream(id, streams[id].receiver).err = "Unauthorized"

\* C33: resolve_dispute(receiver_bps) that succeeds was called by the
\* arbiter; it pays the receiver floor(remaining * receiver_bps / 10000) of
\* remaining = total_amount - withdrawn_amount and the sender the rest, so
\* both payments add up to remaining, and it leaves the stream cancelled.
DisputeSplit ==
    \A id \in StreamIds, caller \in Addresses, receiver_bps \in BpsChoices :
        LET stream == streams[id]
            remaining == stream.total_amount - stream.withdrawn_amount
            o == resolve_dispute(id, caller, receiver_bps)
        IN o.err = "Ok" =>
               /\ caller = stream.arbiter
               /\ o.to_receiver = (remaining * receiver_bps) \div BasisPoints
               /\ o.to_receiver + o.to_sender = remaining
               /\ o.balance[stream.receiver] = balance[stream.receiver] + o.to_receiver
               /\ o.balance[stream.sender] = balance[stream.sender] + o.to_sender
               /\ o.balance[Contract] = balance[Contract] - remaining
               /\ o.streams[id].cancelled

\* A stream with 6 tokens remaining is resolved at 6000 bps: 3 to the
\* receiver, 3 to the sender.
DisputeSplitWitness ==
    \E id \in StreamIds :
        LET o == resolve_dispute(id, streams[id].arbiter, 6000)
        IN /\ streams[id].arbiter \in Arbiters
           /\ streams[id].total_amount - streams[id].withdrawn_amount = 6
           /\ o.err = "Ok"
           /\ o.to_receiver = 3
           /\ o.to_sender = 3

\* C34: governance_clawback by a caller without the ComplianceOfficer role
\* returns Unauthorized and changes nothing; when it succeeds the stream is
\* cancelled and exactly total_amount - withdrawn_amount went from the
\* contract to the issuer, nothing to the sender or the receiver; for an
\* officer it is refused for no stream that is not cancelled, whether
\* active, paused or frozen: it succeeds unless the contract holds less
\* than that remainder and the token transfer fails.
ClawbackToIssuer ==
    \A id \in StreamIds, officer \in Addresses, issuer \in Officers :
        LET stream == streams[id]
            remaining == stream.total_amount - stream.withdrawn_amount
            o == governance_clawback(id, officer, issuer)
        IN /\ officer \notin Officers => o = Abort("Unauthorized")
           /\ officer \in Officers /\ ~stream.cancelled
                  => \/ o.err = "Ok"
                     \/ o.err = "Panic" /\ balance[Contract] < remaining
           /\ o.err = "Ok" =>
                  /\ officer \in Officers
                  /\ o.streams[id] = [stream EXCEPT !.cancelled = TRUE]
                  /\ o.balance[issuer] = balance[issuer] + remaining
                  /\ o.balance[Contract] = balance[Contract] - remaining
                  /\ \A a \in Addresses \ {issuer} : o.balance[a] = balance[a]

\* A frozen stream with part withdrawn is clawed back by the officer; the
\* sender's call is refused.
ClawbackToIssuerWitness ==
    \E id \in StreamIds, issuer \in Officers :
        /\ streams[id].withdrawn_amount > 0
        /\ streams[id].is_frozen
        /\ governance_clawback(id, issuer, issuer).err = "Ok"
        /\ governance_clawback(id, issuer, issuer).amount
               = streams[id].total_amount - streams[id].withdrawn_amount
        /\ governance_clawback(id, streams[id].sender, issuer).err = "Unauthorized"


(***************************************************************************)
(* create_stream called with valid and invalid arguments, at any time.     *)
(***************************************************************************)
MaxStreams == 3
CreateTotals == {-1, 0, 3, 5, 9}
CreateTimes == {1, 2, 4}

\* lib.rs create_stream
create_stream(sender, receiver, total_amount, start_time, end_time, curve_type, is_soulbound) ==
    create_stream_with_milestones(sender, receiver, total_amount, start_time,
                                  end_time, <<>>, curve_type, is_soulbound)

CreateAny ==
    \E sender \in Senders, receiver \in Receivers, total_amount \in CreateTotals, start_time \in CreateTimes, end_time \in CreateTimes :
        /\ stream_count < MaxStreams
        /\ Commit(create_stream(sender, receiver, total_amount, start_time,
                                end_time, "Linear", FALSE))
        /\ stream_count' = stream_count + 1
        /\ deposited' = Put(deposited, stream_count, total_amount)
        /\ paid' = Put(paid, stream_count, 0)

NextCreate == Tick \/ CreateAny \/ Withdraw \/ Pause

SpecCreate == Init /\ [][NextCreate]_vars

\* C35: create_stream returns InvalidTimeRange when start_time >= end_time
\* and InvalidAmount when the times are in order and total_amount <= 0,
\* with the streams, the receipts and the balances unchanged; when it
\* succeeds exactly total_amount went from the sender to the contract and
\* the stored stream has withdrawn_amount = 0, cancelled = is_paused =
\* is_frozen = FALSE and a receipt owned by the receiver; the stream id
\* counter is the number of streams stored and advances by one only with a
\* stream stored under the old count.
CreateValidation ==
    /\ [](/\ DOMAIN streams = StreamIds
          /\ DOMAIN receipts = StreamIds
          /\ \A sender \in Senders, receiver \in Receivers, total_amount \in CreateTotals, start_time \in CreateTimes, end_time \in CreateTimes :
                LET o == create_stream(sender, receiver, total_amount,
                                       start_time, end_time, "Linear", FALSE)
                IN /\ start_time >= end_time => o = Abort("InvalidTimeRange")
                   /\ start_time < end_time /\ total_amount <= 0
                          => o = Abort("InvalidAmount")
                   /\ o.err # "Ok" => o = Abort(o.err)
                   /\ o.err = "Ok" =>
                          /\ o.balance[sender] = balance[sender] - total_amount
                          /\ o.balance[Contract] = balance[Contract] + total_amount
                          /\ \A id \in StreamIds : o.streams[id] = streams[id]
                          /\ o.streams[stream_count].sender = sender
                          /\ o.streams[stream_count].receiver = receiver
                          /\ o.streams[stream_count].total_amount = total_amount
                          /\ o.streams[stream_count].withdrawn_amount = 0
                          /\ ~o.streams[stream_count].cancelled
                          /\ ~o.streams[stream_count].is_paused
                          /\ ~o.streams[stream_count].is_frozen
                          /\ o.streams[stream_count].receipt_owner = receiver
                          /\ o.receipts[stream_count].owner = receiver)
    /\ [][stream_count' # stream_count =>
              /\ stream_count' = stream_count + 1
              /\ streams'[stream_count].withdrawn_amount = 0
              /\ balance'[Contract]
                     = balance[Contract] + streams'[stream_count].total_amount
              /\ streams'[stream_count].total_amount > 0
              /\ streams'[stream_count].start_time < streams'[stream_count].end_time
       ]_vars

\* A stream was created after the first one; now a create with the times
\* out of order and one with no amount are refused, and one the sender can
\* fund would succeed.
CreateValidationWitness ==
    /\ stream_count = 2
    /\ streams[1].total_amount = 3
    /\ create_stream("alice", "bob", 5, 4, 2, "Linear", FALSE).err = "InvalidTimeRange"
    /\ create_stream("alice", "bob", 0, 1, 4, "Linear", FALSE).err = "InvalidAmount"
    /\ create_stream("alice", "bob", 9, 1, 4, "Linear", FALSE).err = "Panic"
    /\ create_stream("alice", "bob", 5, 1, 4, "Linear", FALSE).err = "Ok"


\* C36: a top-up never lowers the receiver's entitlement: for every
\* successful top_up_stream, unlocked(now) of the stream as stored by the
\* top-up is at least unlocked(now) of the stream before it.
TopUpKeepsEntitlement ==
    \A id \in StreamIds, caller \in Addresses, amount \in TopUpAmounts :
        LET o == top_up_stream(id, caller, amount)
        IN o.err = "Ok" =>
               unlocked(o.streams[id], now).val >= unlocked(streams[id], now).val


\* C37: vault share accounting stays proportional over a sequence of
\* withdrawals, so that once a vaulted stream's withdrawn_amount equals its
\* total_amount every share has been released: its tracked share balance
\* is 0.
VaultSharesProportional ==
    \A id \in StreamIds :
        /\ streams[id].vault_address # None
        /\ ~streams[id].cancelled
        /\ streams[id].withdrawn_amount = streams[id].total_amount
        => get_vault_shares(id) = 0


\* C38: every stream has exactly one receipt, stored under its id and
\* naming it; the stream's receipt_owner is the owner stored in the
\* receipt; transfer_receipt called by anyone but the owner returns
\* NotReceiptOwner and changes nothing; and in every step in which a
\* receipt's owner changes, the new state is the one transfer_receipt
\* called by the owner leaves, with nothing but the owner changed.
OneReceiptPerStream ==
    /\ [](/\ DOMAIN receipts = StreamIds
          /\ \A id \in StreamIds :
                /\ receipts[id].stream_id = id
                /\ streams[id].receipt_owner = receipts[id].owner
                /\ \A from \in Addresses \ {receipts[id].owner}, to \in Transferees :
                       transfer_receipt(id, from, to) = Abort("NotReceiptOwner"))
    /\ [][\A id \in StreamIds :
              receipts'[id].owner # receipts[id].owner =>
                  /\ streams' = transfer_receipt(id, receipts[id].owner,
                                                 receipts'[id].owner).streams
                  /\ receipts' = transfer_receipt(id, receipts[id].owner,
                                                  receipts'[id].owner).receipts
                  /\ transfer_receipt(id, receipts[id].owner,
                                      receipts'[id].owner).err = "Ok"
                  /\ streams'[id] = [streams[id] EXCEPT
                                        !.receipt_owner = receipts'[id].owner]
                  /\ balance' = balance
       ]_vars

\* A receipt went from the receiver to another address; the receiver, who
\* owns it no longer, cannot transfer it, and the new owner can.
OneReceiptPerStreamWitness ==
    \E id \in StreamIds :
        /\ receipts[id].owner # streams[id].receiver
        /\ streams[id].receipt_owner = receipts[id].owner
        /\ transfer_receipt(id, streams[id].receiver, "carol").err = "NotReceiptOwner"
        /\ transfer_receipt(id, receipts[id].owner, "bob").err = "Ok"


\* lib.rs get_receipt_metadata
get_receipt_metadata(id, checks) ==
    IF id \notin StreamIds
    THEN [err |-> "StreamNotFound", stream_id |-> id, locked_balance |-> 0,
          unlocked_balance |-> 0, total_amount |-> 0]
    ELSE LET stream == streams[id]
             u == calculate_unlocked(stream, now, checks)
         IN IF ~u.ok
            THEN [err |-> "Panic", stream_id |-> id, locked_balance |-> 0,
                  unlocked_balance |-> 0, total_amount |-> 0]
            ELSE [err |-> "Ok", stream_id |-> id,
                  locked_balance |-> stream.total_amount - u.val,
                  unlocked_balance |-> u.val - stream.withdrawn,
                  total_amount |-> stream.total_amount]

\* C39: for a stream that is neither cancelled nor USD-pegged,
\* get_receipt_metadata reports as unlocked_balance the amount a withdraw
\* at the same time would compute, unlocked(now) - withdrawn_amount, and
\* locked_balance + unlocked_balance + withdrawn_amount = total_amount.
MetadataMatchesWithdraw ==
    \A id \in StreamIds, ext \in Exts :
        LET stream == streams[id]
            m == get_receipt_metadata(id, ext.checks)
            tw == to_withdraw(stream, ext)
        IN ~stream.cancelled /\ ~stream.is_usd_pegged /\ m.err = "Ok" /\ tw.err = "Ok"
           => /\ m.unlocked_balance = tw.val
              /\ m.locked_balance + m.unlocked_balance + stream.withdrawn_amount
                     = stream.total_amount


\* C40: a stream paused at a time before its start_time unlocks nothing
\* while it stays paused: at every ledger time the unlocked amount is 0,
\* get_receipt_metadata completes and reports 0 unlocked, and cancel by the
\* sender or the receipt owner completes and returns the whole
\* total_amount to the sender.
PausedBeforeStartUnlocksNothing ==
    \A id \in StreamIds, ext \in Exts :
        LET stream == streams[id]
            m == get_receipt_metadata(id, ext.checks)
        IN /\ stream.is_paused
           /\ stream.paused_time < stream.start_time
           /\ ~stream.cancelled
           => /\ calculate_unlocked(stream, now, ext.checks) = Ok(0)
              /\ m.err = "Ok"
              /\ m.unlocked_balance = 0
              /\ \A caller \in {stream.sender, receipts[id].owner} :
                     /\ cancel(id, caller, ext).err = "Ok"
                     /\ cancel(id, caller, ext).to_sender = stream.total_amount
                     /\ cancel(id, caller, ext).to_receiver = 0

====
